---------------------------- MODULE Spec2Model ----------------------------
(***************************************************************************)
(* Model of the mind-map generator: the flat-record tree builder and the   *)
(* retrying generation client of src/services/geminiService.ts, the layout *)
(* and the viewport of the MindMap component, and the search, the export, *)
(* the generation and the file import of App.                              *)
(*                                                                         *)
(* JavaScript values are modelled as follows.  A string that the code only *)
(* stores and compares is a TLA+ string.  A string that the code inspects  *)
(* (toLowerCase, includes) is a sequence of one-character strings.  The    *)
(* value undefined is the constant Undefined.  An object reference is the  *)
(* key under which the object is stored in the heap function.              *)
(***************************************************************************)
EXTENDS Integers, Sequences, FiniteSets

VARIABLES
    \* ---- buildTreeFromFlat, called on its own ----
    items,        \* the FlatMindMapNode[] argument
    tree,         \* the returned MindMapNodeData object graph, or NoTree
    bpc,          \* "start" before the call, "done" after it, then normalized
    \* ---- withRetry and generateMindMapStructure ----
    caller,       \* who called withRetry
    engine,       \* the JavaScript engine the code runs on
    retries,      \* parameter of withRetry
    baseDelayMs,  \* parameter of withRetry
    attempt,      \* loop variable of withRetry
    lastErr,      \* lastErr of withRetry
    gpc,          \* control point of the asynchronous call
    response,     \* the value withRetry returned
    caught,       \* the error caught at line 159
    thrown,       \* message of the error generateMindMapStructure threw
    trace,        \* history: the calls of fn and of sleep, in order
    \* ---- layoutTree (MindMap.tsx) ----
    data,           \* the data prop of MindMap
    positionedData, \* the memoised layoutTree(data)
    lpc,            \* "start" before the layout is computed, "done" after it
    \* ---- the viewport of MindMap ----
    viewBox,        \* the viewBox state
    rect,           \* svgRef.current.getBoundingClientRect()
    fitPending,     \* the auto-fit effect is scheduled
    isPanning,      \* isPanning.current
    startPoint,     \* startPoint.current
    activePointers, \* activePointers.current, in insertion order
    pinchState,     \* pinchState.current
    log,            \* history: the events handled, with the viewBox around them
    \* ---- search and export of App ----
    mindMapData,    \* the mindMapData state
    searchQuery,    \* the searchQuery state
    searchResults,  \* the searchResults state
    mindMapText,    \* the text handed to jsPDF by handleExportPdf
    apc,            \* control point of App
    \* ---- the actions of App: generate, export, import ----
    documentText,   \* the documentText state
    isLoading,      \* the isLoading state
    error,          \* the error state
    dialogOpen,     \* the file chooser of the hidden input is open
    inflight,       \* the asynchronous calls awaited, by attempt number
    events,         \* history: starts and outcomes of the attempts, in order
    dataOwner       \* history: the attempt that set mindMapData

buildVars == <<items, tree, bpc>>
genVars == <<caller, engine, retries, baseDelayMs, attempt, lastErr, gpc,
             response, caught, thrown, trace>>
layoutVars == <<data, positionedData, lpc>>
viewVars == <<viewBox, rect, fitPending, isPanning, startPoint, activePointers,
              pinchState, log>>
appVars == <<mindMapData, searchQuery, searchResults, mindMapText, apc>>
actVars == <<documentText, isLoading, error, dialogOpen, inflight, events,
             dataOwner>>
uiVars == <<layoutVars, viewVars, appVars, actVars>>
vars == <<buildVars, genVars, uiVars>>

-----------------------------------------------------------------------------
(* Bounds of the model *)

MaxItems == 3
MaxRetries == 3

-----------------------------------------------------------------------------
(* The strings the bounded inputs are drawn from *)

NoParent == ""                           \* parentId of a root record
Ids == {"a", "b", "root"}
AbsentId == "x"                          \* an id no record carries
ParentIds == {NoParent} \cup Ids \cup {AbsentId}

\* every record of an input carries its own topic and content
Topics == <<"T1", "T2", "T3", "T4", "T5", "T6">>
Contents == <<"C1", "C2", "C3", "C4", "C5", "C6">>

-----------------------------------------------------------------------------
(* JavaScript values *)

Undefined == "undefined"
NoTree == [rootRef |-> "<none>", heap |-> <<>>]

\* JavaScript truthiness of a string-or-undefined value
Truthy(v) == v # Undefined /\ v # ""

\* a || b
OrElse(a, b) == IF Truthy(a) THEN a ELSE b

\* Map.prototype.set on a map held as a function from keys to values
MapSet(m, k, v) == [x \in (DOMAIN m) \cup {k} |-> IF x = k THEN v ELSE m[x]]

EmptyMap == [x \in {} |-> x]

-----------------------------------------------------------------------------
(* JavaScript numbers.  The layout computes with integers only.  The       *)
(* viewport divides, so its numbers are held exactly, as fractions in      *)
(* lowest terms with a positive denominator: what is stated about them is  *)
(* stated for exact arithmetic, without the rounding of IEEE doubles.      *)

Abs(n) == IF n < 0 THEN -n ELSE n

RECURSIVE GCD(_, _)
GCD(a, b) == IF b = 0 THEN a ELSE GCD(b, a % b)

\* the fraction n/d, d # 0
Rat(n, d) ==
    LET g == GCD(Abs(n), Abs(d))
        s == IF d < 0 THEN -1 ELSE 1
    IN [n |-> (s * n) \div g, d |-> (s * d) \div g]

Int2Rat(i) == [n |-> i, d |-> 1]

RAdd(a, b) ==
    LET l == (a.d \div GCD(a.d, b.d)) * b.d
    IN Rat(a.n * (l \div a.d) + b.n * (l \div b.d), l)

RNeg(a) == [n |-> -a.n, d |-> a.d]

RSub(a, b) == RAdd(a, RNeg(b))

RMul(a, b) ==
    LET g1 == GCD(Abs(a.n), b.d)
        g2 == GCD(Abs(b.n), a.d)
    IN Rat((a.n \div g1) * (b.n \div g2), (a.d \div g2) * (b.d \div g1))

\* a / b, b # 0
RDiv(a, b) == RMul(a, Rat(b.d, b.n))

RLess(a, b) == a.n * b.d < b.n * a.d

RLeq(a, b) == a.n * b.d <= b.n * a.d

-----------------------------------------------------------------------------
(* The values the components hold while they are not exercised *)

\* MindMap.tsx line 43: the initial viewBox state
InitialViewBox ==
    [x |-> Int2Rat(0), y |-> Int2Rat(0),
     width |-> Int2Rat(1000), height |-> Int2Rat(800)]

NoPositioned ==
    [id |-> "<none>", topic |-> "", content |-> "", x |-> 0, y |-> 0,
     children |-> <<>>]

NoRect == [left |-> 0, top |-> 0, width |-> 1, height |-> 1]

\* startPoint.current of part_002 line 58
OriginPoint == [x |-> 0, y |-> 0]

\* pinchState.current = null
\* pinchState.current = null; pair is history: the pointers a snapshot was
\* taken from
NoPinch ==
    [set |-> FALSE, distance |-> 0,
     centerSvg |-> [x |-> Int2Rat(0), y |-> Int2Rat(0)],
     viewBox |-> InitialViewBox, pair |-> {}]

LayoutIdle == data = NoTree /\ positionedData = NoPositioned /\ lpc = "idle"

ViewIdle ==
    /\ viewBox = InitialViewBox /\ rect = NoRect /\ fitPending = FALSE
    /\ isPanning = FALSE /\ startPoint = OriginPoint
    /\ activePointers = <<>> /\ pinchState = NoPinch /\ log = <<>>

AppIdle ==
    /\ mindMapData = NoTree /\ searchQuery = <<>> /\ searchResults = <<>>
    /\ mindMapText = <<>> /\ apc = "idle"

\* part_001 lines 30-33: the initial state of App
NoError == "null"

ActIdle ==
    /\ documentText = <<>> /\ isLoading = FALSE /\ error = NoError
    /\ dialogOpen = FALSE /\ inflight = {} /\ events = <<>> /\ dataOwner = 0

UiIdle == LayoutIdle /\ ViewIdle /\ AppIdle /\ ActIdle

-----------------------------------------------------------------------------
(* Strings the code inspects, as sequences of characters *)

UpperCase == <<"A", "B", "C", "D", "E", "F", "G", "H", "I", "J", "K", "L", "M",
               "N", "O", "P", "Q", "R", "S", "T", "U", "V", "W", "X", "Y", "Z">>
LowerCase == <<"a", "b", "c", "d", "e", "f", "g", "h", "i", "j", "k", "l", "m",
               "n", "o", "p", "q", "r", "s", "t", "u", "v", "w", "x", "y", "z">>

\* String.prototype.toLowerCase, on the ASCII letters
toLowerCase(s) ==
    [i \in 1..Len(s) |->
        IF \E k \in 1..Len(UpperCase) : UpperCase[k] = s[i]
        THEN LowerCase[CHOOSE k \in 1..Len(UpperCase) : UpperCase[k] = s[i]]
        ELSE s[i]]

\* String.prototype.includes
includes(s, sub) ==
    \E i \in 1..(Len(s) - Len(sub) + 1) : SubSeq(s, i, i + Len(sub) - 1) = sub

EmptyString == <<>>

\* "unavailable"
Word_unavailable ==
    <<"u", "n", "a", "v", "a", "i", "l", "a", "b", "l", "e">>

\* "network"
Word_network ==
    <<"n", "e", "t", "w", "o", "r", "k">>

\* "timeout"
Word_timeout ==
    <<"t", "i", "m", "e", "o", "u", "t">>

\* "aborted"
Word_aborted ==
    <<"a", "b", "o", "r", "t", "e", "d">>

\* "socket"
Word_socket ==
    <<"s", "o", "c", "k", "e", "t">>

\* "wsarecv"
Word_wsarecv ==
    <<"w", "s", "a", "r", "e", "c", "v">>

\* "econnreset"
Word_econnreset ==
    <<"e", "c", "o", "n", "n", "r", "e", "s", "e", "t">>

\* the vocabulary of lines 102-108
TransientWords ==
    {Word_unavailable, Word_network, Word_timeout, Word_aborted, Word_socket,
     Word_wsarecv, Word_econnreset}

\* "503 Service Unavailable"
Msg_ServiceUnavailable ==
    <<"5", "0", "3", " ", "S", "e", "r", "v", "i", "c", "e", " ", "U", "n",
      "a", "v", "a", "i", "l", "a", "b", "l", "e">>

\* "socket hang up"
Msg_SocketHangUp ==
    <<"s", "o", "c", "k", "e", "t", " ", "h", "a", "n", "g", " ", "u", "p">>

\* "Failed to fetch"
Msg_FailedToFetch ==
    <<"F", "a", "i", "l", "e", "d", " ", "t", "o", " ", "f", "e", "t", "c",
      "h">>

\* "API key not valid"
Msg_ApiKeyInvalid ==
    <<"A", "P", "I", " ", "k", "e", "y", " ", "n", "o", "t", " ", "v", "a",
      "l", "i", "d">>

\* "Timeout"
Msg_ThrownTimeout ==
    <<"T", "i", "m", "e", "o", "u", "t">>

\* "Error"
Name_Error ==
    <<"E", "r", "r", "o", "r">>

\* "N/A"
Text_NotApplicable ==
    <<"N", "/", "A">>

\* "Network map"
Text_NetworkMap ==
    <<"N", "e", "t", "w", "o", "r", "k", " ", "m", "a", "p">>

\* "Unexpected end of JSON input"
V8_UnexpectedEnd ==
    <<"U", "n", "e", "x", "p", "e", "c", "t", "e", "d", " ", "e", "n", "d",
      " ", "o", "f", " ", "J", "S", "O", "N", " ", "i", "n", "p", "u", "t">>

V8_UnexpectedTokenHead ==
    <<"U", "n", "e", "x", "p", "e", "c", "t", "e", "d", " ", "t", "o", "k",
      "e", "n", " ", "'">>

V8_UnexpectedTokenMid ==
    <<"'", ",", " ", "\"">>

V8_UnexpectedTokenTail ==
    <<"\"", " ", "i", "s", " ", "n", "o", "t", " ", "v", "a", "l", "i",
      "d", " ", "J", "S", "O", "N">>

V8_NullProperty ==
    <<"C", "a", "n", "n", "o", "t", " ", "r", "e", "a", "d", " ", "p", "r",
      "o", "p", "e", "r", "t", "i", "e", "s", " ", "o", "f", " ", "n", "u",
      "l", "l", " ", "(", "r", "e", "a", "d", "i", "n", "g", " ", "'", "i",
      "d", "'", ")">>

\* "Maximum call stack size exceeded"
V8_StackOverflow ==
    <<"M", "a", "x", "i", "m", "u", "m", " ", "c", "a", "l", "l", " ", "s",
      "t", "a", "c", "k", " ", "s", "i", "z", "e", " ", "e", "x", "c", "e",
      "e", "d", "e", "d">>

\* "JSON.parse: unexpected end of data at line 1 column 1 of the JSON data"
SM_UnexpectedEnd ==
    <<"J", "S", "O", "N", ".", "p", "a", "r", "s", "e", ":", " ", "u", "n",
      "e", "x", "p", "e", "c", "t", "e", "d", " ", "e", "n", "d", " ", "o",
      "f", " ", "d", "a", "t", "a", " ", "a", "t", " ", "l", "i", "n", "e",
      " ", "1", " ", "c", "o", "l", "u", "m", "n", " ", "1", " ", "o", "f",
      " ", "t", "h", "e", " ", "J", "S", "O", "N", " ", "d", "a", "t", "a">>

\* "JSON.parse: unexpected character at line 1 column 1 of the JSON data"
SM_UnexpectedChar ==
    <<"J", "S", "O", "N", ".", "p", "a", "r", "s", "e", ":", " ", "u", "n",
      "e", "x", "p", "e", "c", "t", "e", "d", " ", "c", "h", "a", "r", "a",
      "c", "t", "e", "r", " ", "a", "t", " ", "l", "i", "n", "e", " ", "1",
      " ", "c", "o", "l", "u", "m", "n", " ", "1", " ", "o", "f", " ", "t",
      "h", "e", " ", "J", "S", "O", "N", " ", "d", "a", "t", "a">>

SM_NullProperty ==
    <<"c", "a", "n", "'", "t", " ", "a", "c", "c", "e", "s", "s", " ", "p",
      "r", "o", "p", "e", "r", "t", "y", " ", "\"", "i", "d", "\"", ",",
      " ", "i", "t", " ", "i", "s", " ", "n", "u", "l", "l">>

\* "too much recursion"
SM_StackOverflow ==
    <<"t", "o", "o", " ", "m", "u", "c", "h", " ", "r", "e", "c", "u", "r",
      "s", "i", "o", "n">>

\* "SyntaxError"
Name_SyntaxError ==
    <<"S", "y", "n", "t", "a", "x", "E", "r", "r", "o", "r">>

\* "TypeError"
Name_TypeError ==
    <<"T", "y", "p", "e", "E", "r", "r", "o", "r">>

\* "RangeError"
Name_RangeError ==
    <<"R", "a", "n", "g", "e", "E", "r", "r", "o", "r">>

\* "InternalError"
Name_InternalError ==
    <<"I", "n", "t", "e", "r", "n", "a", "l", "E", "r", "r", "o", "r">>

-----------------------------------------------------------------------------
(* buildTreeFromFlat (geminiService.ts 72-95) *)

\* reference of the object literal created at lines 89-94
SynthRef == "<synthetic>"

\* first loop, lines 74-76: one fresh node per record, later records overwrite
RECURSIVE FillMap(_, _, _)
FillMap(its, i, map) ==
    IF i > Len(its) THEN map
    ELSE FillMap(its, i + 1,
                 MapSet(map, its[i].id,
                        [id |-> its[i].id, topic |-> its[i].topic,
                         content |-> its[i].content, children |-> <<>>]))

\* the test of line 81
HasParent(it, map) ==
    LET parentId == OrElse(it.parentId, "")
    IN Truthy(parentId) /\ parentId \in DOMAIN map

\* second loop, lines 78-86: st = [map, roots]
RECURSIVE LinkAll(_, _, _)
LinkAll(its, i, st) ==
    IF i > Len(its) THEN st
    ELSE LET it == its[i]
             parentId == OrElse(it.parentId, "")
         IN LinkAll(its, i + 1,
                IF HasParent(it, st.map)
                THEN [st EXCEPT !.map[parentId].children = Append(@, it.id)]
                ELSE [st EXCEPT !.roots = Append(@, it.id)])

\* lines 87-94: the single root, or a synthesized one
PickRoot_FirstRoot(st) ==
    IF Len(st.roots) >= 1
    THEN [rootRef |-> st.roots[1], heap |-> st.map]
    ELSE [rootRef |-> SynthRef,
          heap |-> MapSet(st.map, SynthRef,
                          [id |-> "root", topic |-> "Mind Map",
                           content |-> "Auto-constructed root",
                           children |-> st.roots])]

\* roots[0] of an empty array is undefined
PickRoot_AtMostOne(st) ==
    IF Len(st.roots) <= 1
    THEN [rootRef |-> IF Len(st.roots) = 0 THEN Undefined ELSE st.roots[1],
          heap |-> st.map]
    ELSE [rootRef |-> SynthRef,
          heap |-> MapSet(st.map, SynthRef,
                          [id |-> "root", topic |-> "Mind Map",
                           content |-> "Auto-constructed root",
                           children |-> st.roots])]

PickRoot(st) ==
    IF Len(st.roots) = 1
    THEN [rootRef |-> st.roots[1], heap |-> st.map]
    ELSE [rootRef |-> SynthRef,
          heap |-> MapSet(st.map, SynthRef,
                          [id |-> "root", topic |-> "Mind Map",
                           content |-> "Auto-constructed root",
                           children |-> st.roots])]

buildTreeFromFlat(its) ==
    PickRoot(LinkAll(its, 1, [map |-> FillMap(its, 1, EmptyMap), roots |-> <<>>]))

-----------------------------------------------------------------------------
(* Inputs of buildTreeFromFlat *)

Shapes == [id : Ids, parentId : ParentIds]
ShapeLists == UNION {[1..n -> Shapes] : n \in 0..MaxItems}

\* the field the first record lacks, if any
Fields == {"id", "parentId", "topic", "content"}
Lacking == {"none"} \cup Fields

MakeItems(shapes, lack) ==
    [i \in 1..Len(shapes) |->
        [id       |-> IF i = 1 /\ lack = "id" THEN Undefined ELSE shapes[i].id,
         parentId |-> IF i = 1 /\ lack = "parentId" THEN Undefined
                      ELSE shapes[i].parentId,
         topic    |-> IF i = 1 /\ lack = "topic" THEN Undefined ELSE Topics[i],
         content  |-> IF i = 1 /\ lack = "content" THEN Undefined ELSE Contents[i]]]

InputLists == {MakeItems(s, l) : s \in ShapeLists, l \in Lacking}

-----------------------------------------------------------------------------
(* Vocabulary of the tree-builder claims, over an input list *)

Indices(its) == 1..Len(its)

\* the record names no parent ("" or no parentId at all)
EmptyParent(it) == ~Truthy(it.parentId)

IdPresent(its, p) == \E j \in Indices(its) : its[j].id = p

NumEmptyParent(its) == Cardinality({i \in Indices(its) : EmptyParent(its[i])})

\* root candidate: parentId empty or not the id of any record
IsCandidate(its, it) == EmptyParent(it) \/ ~IdPresent(its, it.parentId)

IdsOf(recs) == [k \in 1..Len(recs) |-> recs[k].id]

CandidateIds(its) ==
    LET Test(it) == IsCandidate(its, it) IN IdsOf(SelectSeq(its, Test))

\* ids of the records that name p as parent, in input order
ChildrenNaming(its, p) ==
    LET Test(it) == ~EmptyParent(it) /\ it.parentId = p IN IdsOf(SelectSeq(its, Test))

DistinctIds(its) == \A i, j \in Indices(its) : its[i].id = its[j].id => i = j

\* the parent relation on ids, and its transitive closure
ParentsOf(its, id) ==
    {its[i].parentId : i \in {j \in Indices(its) : its[j].id = id /\ ~EmptyParent(its[j])}}

RECURSIVE Up(_, _, _)
Up(its, S, k) ==
    IF k = 0 THEN S
    ELSE Up(its, S \cup UNION {ParentsOf(its, x) : x \in S}, k - 1)

AncestorsOf(its, id) == Up(its, ParentsOf(its, id), Len(its))

OnCycle(its, id) == id \in AncestorsOf(its, id)

Acyclic(its) == \A i \in Indices(its) : ~OnCycle(its, its[i].id)

-----------------------------------------------------------------------------
(* Vocabulary of the tree-builder claims, over a returned object graph *)

RECURSIVE Flatten(_)
Flatten(ss) == IF Len(ss) = 0 THEN <<>> ELSE Head(ss) \o Flatten(Tail(ss))

\* ids met by a depth-first pre-order walk from ref, at most fuel levels deep
RECURSIVE Preorder(_, _, _)
Preorder(t, ref, fuel) ==
    IF fuel = 0 THEN <<>>
    ELSE LET ch == t.heap[ref].children
         IN <<t.heap[ref].id>> \o
            Flatten([k \in 1..Len(ch) |-> Preorder(t, ch[k], fuel - 1)])

Count(seq, x) == Cardinality({k \in 1..Len(seq) : seq[k] = x})

RECURSIVE ReachFrom(_, _, _)
ReachFrom(t, S, k) ==
    IF k = 0 THEN S
    ELSE ReachFrom(t,
                   S \cup UNION {{t.heap[r].children[c] :
                                     c \in 1..Len(t.heap[r].children)} : r \in S},
                   k - 1)

\* references of the nodes reachable from the returned root
Reachable(t) == ReachFrom(t, {t.rootRef}, Cardinality(DOMAIN t.heap))

\* some node reachable from the root is its own descendant
HasCycle(t) ==
    \E r \in Reachable(t) :
        r \in ReachFrom(t, {t.heap[r].children[c] : c \in 1..Len(t.heap[r].children)},
                        Cardinality(DOMAIN t.heap))

-----------------------------------------------------------------------------
(* Errors and the transient classifier (geminiService.ts 98-110) *)

\* a thrown value: an Error object (name, message) or a primitive string
NoErr == [kind |-> "none", name |-> EmptyString, message |-> EmptyString]
ErrorObject(n, m) == [kind |-> "Error", name |-> n, message |-> m]
ThrownString(t) == [kind |-> "string", name |-> EmptyString, message |-> t]

\* line 100: String(err?.message || err || '')
ErrString(err) ==
    IF err.message # EmptyString THEN err.message      \* message, or the string itself
    ELSE IF err.kind = "Error" THEN err.name           \* Error.prototype.toString
    ELSE EmptyString

\* lines 99-110
isTransientNetworkError(err) ==
    LET msg == toLowerCase(ErrString(err))
    IN \E w \in TransientWords : includes(msg, w)

\* line 119: baseDelayMs * Math.pow(2, attempt)
BackoffDelay_Linear(base, k) == base * 2 * k

BackoffDelay(base, k) == base * (2 ^ k)

\* line 118: retry only a transient failure, and only while budget remains
ShouldRetry_AnyError(k, budget, err) == k < budget

ShouldRetry(k, budget, err) == k < budget /\ isTransientNetworkError(err)

\* line 111: the default parameters of withRetry
DefaultRetries == 2
DefaultBaseDelayMs == 800

\* lines 162 and 164: the two user-facing messages
UnreachableMessage ==
    "The model service is currently unreachable. Please check your internet/VPN/firewall and try again."
FailedMessage == "Failed to generate mind map. Please check the console for details."

\* lines 161-164
UserFacingMessage(err) ==
    IF isTransientNetworkError(err) THEN UnreachableMessage ELSE FailedMessage

-----------------------------------------------------------------------------
(* What the generation service and the JavaScript engine can produce *)

\* rejections of model.generateContent (line 136)
FnErrors ==
    {ErrorObject(Name_Error, Msg_ServiceUnavailable),
     ErrorObject(Name_Error, Msg_SocketHangUp),
     ThrownString(Msg_ThrownTimeout),
     ErrorObject(Name_Error, Msg_FailedToFetch),
     ErrorObject(Name_Error, Msg_ApiKeyInvalid),
     ErrorObject(Name_Error, EmptyString)}

\* a JSON array element that is null instead of a record
JsonNull == [null |-> TRUE]
IsNull(e) == "null" \in DOMAIN e

NoJson == [type |-> "none", elems |-> <<>>]

\* record lists a response body can carry
SampleLists ==
    {MakeItems(<<>>, "none"),
     MakeItems(<<[id |-> "a", parentId |-> NoParent],
                 [id |-> "b", parentId |-> "a"]>>, "none"),
     MakeItems(<<[id |-> "a", parentId |-> NoParent],
                 [id |-> "b", parentId |-> NoParent]>>, "none"),
     MakeItems(<<[id |-> "a", parentId |-> NoParent],
                 [id |-> "b", parentId |-> "a"]>>, "topic"),
     MakeItems(<<[id |-> "a", parentId |-> "b"],
                 [id |-> "b", parentId |-> "a"]>>, "none"),
     MakeItems(<<[id |-> "a", parentId |-> NoParent],
                 [id |-> "b", parentId |-> "a"],
                 [id |-> "a", parentId |-> "b"]>>, "none")}

\* the value a body that is valid JSON denotes
JsonValues ==
    {[type |-> "array", elems |-> l] : l \in SampleLists}
        \cup {[type |-> "array", elems |-> <<JsonNull>>],
              [type |-> "object", elems |-> <<>>]}

\* bodies that are not JSON; each is empty or starts with a character that
\* no JSON text starts with, and is shorter than 21 characters
InvalidTexts == {EmptyString, Text_NotApplicable, Text_NetworkMap}

\* response.response.text() (line 153): the text, and its value when it is JSON
Responses ==
    {[valid |-> TRUE, text |-> EmptyString, json |-> j] : j \in JsonValues}
        \cup {[valid |-> FALSE, text |-> t, json |-> NoJson] : t \in InvalidTexts}

NoResponse == [valid |-> FALSE, text |-> EmptyString, json |-> NoJson]

\* the engines whose error messages are modelled: V8 and SpiderMonkey
Engines == {"v8", "spidermonkey"}

\* the SyntaxError of JSON.parse (line 154) on a text of InvalidTexts; V8
\* quotes a source shorter than 21 characters in full
SyntaxErrorOf(eng, text) ==
    ErrorObject(Name_SyntaxError,
        IF eng = "v8"
        THEN IF text = EmptyString THEN V8_UnexpectedEnd
             ELSE V8_UnexpectedTokenHead \o <<text[1]>> \o V8_UnexpectedTokenMid
                      \o text \o V8_UnexpectedTokenTail
        ELSE IF text = EmptyString THEN SM_UnexpectedEnd ELSE SM_UnexpectedChar)

\* the TypeError of it.id on a null element (line 75)
NullAccessErrorOf(eng) ==
    ErrorObject(Name_TypeError, IF eng = "v8" THEN V8_NullProperty ELSE SM_NullProperty)

\* the TypeError of node.children on undefined (line 13)
UndefinedAccessErrorOf(eng) ==
    ErrorObject(Name_TypeError, IF eng = "v8" THEN V8_NullProperty ELSE SM_NullProperty)

\* the error of unbounded recursion (lines 16-18 on a cyclic object graph)
StackOverflowErrorOf(eng) ==
    IF eng = "v8" THEN ErrorObject(Name_RangeError, V8_StackOverflow)
    ELSE ErrorObject(Name_InternalError, SM_StackOverflow)

-----------------------------------------------------------------------------
(* generateMindMapStructure after the await (lines 153-158) *)

\* line 155
NodesOf(parsed) == IF parsed.type = "array" THEN parsed.elems ELSE <<>>

\* normalizeMindMapData (lines 12-19) recurses without end on a cycle; every
\* node built at line 75 already has a children array, so it changes nothing
NormalizeOverflows(t) == HasCycle(t)

\* the outcome of lines 153-158 on a response: the returned tree or the
\* error thrown, with the list handed to buildTreeFromFlat if it got that far
FinishOutcome(eng, resp) ==
    IF ~resp.valid
    THEN [ok |-> FALSE, err |-> SyntaxErrorOf(eng, resp.text),
          nodes |-> <<>>, tree |-> NoTree]
    ELSE LET nodes == NodesOf(resp.json) IN
         IF \E i \in 1..Len(nodes) : IsNull(nodes[i])
         THEN [ok |-> FALSE, err |-> NullAccessErrorOf(eng),
               nodes |-> nodes, tree |-> NoTree]
         ELSE LET t == buildTreeFromFlat(nodes) IN
              IF t.rootRef \notin DOMAIN t.heap       \* node.children of undefined
              THEN [ok |-> FALSE, err |-> UndefinedAccessErrorOf(eng),
                    nodes |-> nodes, tree |-> NoTree]
              ELSE IF NormalizeOverflows(t)
              THEN [ok |-> FALSE, err |-> StackOverflowErrorOf(eng),
                    nodes |-> nodes, tree |-> NoTree]
              ELSE [ok |-> TRUE, err |-> NoErr, nodes |-> nodes, tree |-> t]

-----------------------------------------------------------------------------
(* Specification SpecGen: withRetry (lines 111-126), called with bounded    *)
(* parameters on its own or with its defaults by generateMindMapStructure   *)
(* (lines 133-166)                                                          *)

BaseDelays == {DefaultBaseDelayMs, 50}

CallEvent(k, outcome, transient, value, err) ==
    [ev |-> "call", attempt |-> k, outcome |-> outcome, transient |-> transient,
     ms |-> 0, value |-> value, err |-> err]

SleepEvent(k, ms) ==
    [ev |-> "sleep", attempt |-> k, outcome |-> "none", transient |-> FALSE,
     ms |-> ms, value |-> NoResponse, err |-> NoErr]

\* line 117: lastErr = err
Remember_First(prev, err) == IF prev = NoErr THEN err ELSE prev

Remember(prev, err) == err

GenIdle ==
    /\ caller = "none" /\ engine = "v8"
    /\ retries = DefaultRetries /\ baseDelayMs = DefaultBaseDelayMs
    /\ attempt = 0 /\ lastErr = NoErr /\ gpc = "idle"
    /\ response = NoResponse /\ caught = NoErr /\ thrown = "none"
    /\ trace = <<>>

InitGen ==
    /\ caller \in {"generateMindMapStructure", "withRetry"}
    /\ engine \in Engines
    /\ retries \in 0..MaxRetries
    /\ baseDelayMs \in BaseDelays
    /\ caller = "generateMindMapStructure" =>
          retries = DefaultRetries /\ baseDelayMs = DefaultBaseDelayMs
    /\ attempt = 0 /\ lastErr = NoErr /\ gpc = "attempt"
    /\ response = NoResponse /\ caught = NoErr /\ thrown = "none"
    /\ trace = <<>>
    /\ items = <<>> /\ tree = NoTree /\ bpc = "idle"
    /\ UiIdle

\* line 115: fn() resolves and withRetry returns its value.  The loop test
\* attempt <= retries holds whenever the loop head is reached, because the
\* body continues only when attempt < retries.
FnResolves ==
    /\ gpc = "attempt"
    /\ \E r \in Responses :
          /\ response' = r
          /\ trace' = Append(trace, CallEvent(attempt, "resolved", FALSE, r, NoErr))
    /\ gpc' = "retryReturned"
    /\ UNCHANGED <<caller, engine, retries, baseDelayMs, attempt, lastErr,
                   caught, thrown, buildVars, uiVars>>

\* lines 116-125: fn() rejects; sleep and go round again, or rethrow
FnRejects ==
    /\ gpc = "attempt"
    /\ \E e \in FnErrors :
          /\ lastErr' = Remember(lastErr, e)
          /\ IF ShouldRetry(attempt, retries, e)
             THEN /\ trace' = trace \o
                        <<CallEvent(attempt, "rejected",
                                    isTransientNetworkError(e), NoResponse, e),
                          SleepEvent(attempt, BackoffDelay(baseDelayMs, attempt))>>
                  /\ gpc' = "sleeping"
             ELSE /\ trace' = Append(trace,
                        CallEvent(attempt, "rejected",
                                  isTransientNetworkError(e), NoResponse, e))
                  /\ gpc' = "retryThrown"
    /\ UNCHANGED <<caller, engine, retries, baseDelayMs, attempt, response,
                   caught, thrown, buildVars, uiVars>>

\* lines 119-120 and the attempt++ of line 113: the timer of sleep fires
SleepDone ==
    /\ gpc = "sleeping"
    /\ attempt' = attempt + 1
    /\ gpc' = "attempt"
    /\ UNCHANGED <<caller, engine, retries, baseDelayMs, lastErr, response,
                   caught, thrown, trace, buildVars, uiVars>>

\* lines 153-165 after withRetry returned: parse, build, normalize, return,
\* or catch what that threw and throw the user-facing error
GenerateFinish ==
    /\ gpc = "retryReturned"
    /\ caller = "generateMindMapStructure"
    /\ LET o == FinishOutcome(engine, response)
       IN /\ items' = o.nodes
          /\ tree' = o.tree
          /\ caught' = o.err
          /\ IF o.ok
             THEN gpc' = "returned" /\ thrown' = thrown
             ELSE gpc' = "thrown" /\ thrown' = UserFacingMessage(o.err)
    /\ UNCHANGED <<caller, engine, retries, baseDelayMs, attempt, lastErr,
                   response, trace, bpc, uiVars>>

\* lines 159-165 after withRetry threw lastErr (line 125)
GenerateCatch ==
    /\ gpc = "retryThrown"
    /\ caller = "generateMindMapStructure"
    /\ caught' = lastErr
    /\ thrown' = UserFacingMessage(lastErr)
    /\ gpc' = "thrown"
    /\ UNCHANGED <<caller, engine, retries, baseDelayMs, attempt, lastErr,
                   response, trace, buildVars, uiVars>>

NextGen == FnResolves \/ FnRejects \/ SleepDone \/ GenerateFinish \/ GenerateCatch

SpecGen == InitGen /\ [][NextGen]_vars

-----------------------------------------------------------------------------
(* Specification SpecBuild: buildTreeFromFlat applied to every bounded input *)

InitBuild ==
    /\ items \in InputLists
    /\ tree = NoTree
    /\ bpc = "start"
    /\ GenIdle
    /\ UiIdle

Build ==
    /\ bpc = "start"
    /\ tree' = buildTreeFromFlat(items)
    /\ bpc' = "done"
    /\ UNCHANGED <<items, genVars, uiVars>>

\* lines 12-19 applied to the tree built, as line 157 does: the recursion
\* ends, or exhausts the stack on a node that is its own descendant
Normalize ==
    /\ bpc = "done"
    /\ bpc' = IF tree.rootRef \notin DOMAIN tree.heap THEN "threw"
              ELSE IF NormalizeOverflows(tree) THEN "overflowed"
              ELSE "normalized"
    /\ UNCHANGED <<items, tree, genVars, uiVars>>

NextBuild == Build \/ Normalize

SpecBuild == InitBuild /\ [][NextBuild]_vars

-----------------------------------------------------------------------------
(* Claims about buildTreeFromFlat, checked under SpecBuild *)

\* exactly one record without parent, every other parent exists, no cycle
WellFormed(its) ==
    /\ NumEmptyParent(its) = 1
    /\ \A i \in Indices(its) : ~EmptyParent(its[i]) => IdPresent(its, its[i].parentId)
    /\ Acyclic(its)

TheRootRecord(its) == CHOOSE i \in Indices(its) : EmptyParent(its[i])

\* C1: for every list with exactly one empty-parentId record whose other
\* records all name an existing parent without cycles, the returned root is
\* that record's node, every record occurs exactly once in the returned tree
\* and every node's children are the records naming it as parent, in input
\* order.
C1_BuildsImpliedHierarchy ==
    (bpc = "done" /\ WellFormed(items)) =>
        /\ tree.rootRef = items[TheRootRecord(items)].id
        /\ \A i \in Indices(items) :
              /\ Count(Preorder(tree, tree.rootRef, Len(items) + 1), items[i].id) = 1
              /\ tree.heap[items[i].id].children = ChildrenNaming(items, items[i].id)

\* The statement of C1 restricted to lists whose ids are pairwise distinct.
C1_DistinctIdsHierarchy ==
    (bpc = "done" /\ WellFormed(items) /\ DistinctIds(items)) =>
        /\ tree.rootRef = items[TheRootRecord(items)].id
        /\ \A i \in Indices(items) :
              /\ Count(Preorder(tree, tree.rootRef, Len(items) + 1), items[i].id) = 1
              /\ tree.heap[items[i].id].children = ChildrenNaming(items, items[i].id)

C1_DistinctIdsReached ==
    /\ bpc = "done" /\ WellFormed(items) /\ DistinctIds(items)
    /\ Len(items) = 3
    /\ \E i \in Indices(items) : Len(tree.heap[items[i].id].children) = 2

\* C2 as stated: with zero or at least two empty-parentId records the root
\* is synthetic and its children are the root candidates, in input order.
C2_SyntheticUnlessOneEmptyParent ==
    (bpc = "done" /\ NumEmptyParent(items) # 1) =>
        /\ tree.rootRef = SynthRef
        /\ tree.heap[SynthRef].children = CandidateIds(items)

\* C2 as amended: with zero or at least two root candidates the root is the
\* synthetic node (id "root", no input record) and its children are the root
\* candidates, in input order; with exactly one root candidate that
\* candidate's node is returned, whatever the number of empty parentIds.
C2_SyntheticUnlessOneCandidate ==
    bpc = "done" =>
        IF Len(CandidateIds(items)) = 1
        THEN /\ tree.rootRef = CandidateIds(items)[1]
             /\ SynthRef \notin DOMAIN tree.heap
        ELSE /\ tree.rootRef = SynthRef
             /\ tree.heap[SynthRef].id = "root"
             /\ tree.heap[SynthRef].children = CandidateIds(items)

\* C2's case: no empty parentId, several orphans, a synthetic root over them
C2_SeveralOrphansReached ==
    /\ bpc = "done"
    /\ NumEmptyParent(items) = 0
    /\ Len(CandidateIds(items)) >= 2
    /\ tree.rootRef = SynthRef

\* the last record carrying the id of record i
LastWithId(its, i) ==
    CHOOSE j \in Indices(its) :
        /\ its[j].id = its[i].id
        /\ \A k \in Indices(its) : its[k].id = its[i].id => k <= j

\* C3: no identifier occurs twice in the returned tree; records sharing an
\* id are collapsed to the last occurrence, linked into the tree once.
C3_NoIdentifierTwice ==
    bpc = "done" =>
        LET walk == Preorder(tree, tree.rootRef, Len(items) + 2)
        IN /\ \A k \in 1..Len(walk) : Count(walk, walk[k]) = 1
           /\ \A i \in Indices(items) :
                 tree.heap[items[i].id].topic = items[LastWithId(items, i)].topic

\* record i is its own parent, or its parent chain leads back to its id
SelfOrCyclic(its, i) ==
    /\ ~EmptyParent(its[i])
    /\ its[i].id \in Up(its, {its[i].parentId}, Len(its))

\* ids that lie on a parent cycle through id
CycleThrough(its, id) ==
    {n \in AncestorsOf(its, id) : id \in AncestorsOf(its, n) \/ n = id}

\* C4: a self-parented or cyclic record is treated as a root candidate: its
\* node is reachable from the returned root and is no child of itself or of
\* a node of its own cycle.
C4_CyclicRecordsBecomeRoots ==
    bpc = "done" =>
        \A i \in Indices(items) :
            SelfOrCyclic(items, i) =>
                /\ items[i].id \in Reachable(tree)
                /\ \A n \in CycleThrough(items, items[i].id) \cup {items[i].id} :
                      n \in DOMAIN tree.heap =>
                          Count(tree.heap[n].children, items[i].id) = 0

LacksRequiredField(it) ==
    it.id = Undefined \/ it.topic = Undefined \/ it.content = Undefined

\* C6: a record lacking id, topic or content makes the builder fail (with a
\* ValidationError), so the builder returns normally (bpc = "done") only for
\* lists without such a record, and no returned node lacks topic or content.
C6_MalformedRecordRejected ==
    bpc = "done" =>
        /\ \A i \in Indices(items) : ~LacksRequiredField(items[i])
        /\ \A r \in Reachable(tree) :
              tree.heap[r].topic # Undefined /\ tree.heap[r].content # Undefined

\* C22: for every record list, self-parented records, cyclic parentId chains
\* and repeated ids included, buildTreeFromFlat followed by
\* normalizeMindMapData terminates and returns a structure in which no node
\* is its own descendant.
C22_NormalizeEndsOnAcyclicTree ==
    /\ bpc # "overflowed"
    /\ bpc = "normalized" => ~HasCycle(tree)

\* The statement of C22 restricted to lists whose ids are pairwise distinct.
C22_DistinctIdsAcyclic ==
    DistinctIds(items) =>
        /\ bpc # "overflowed"
        /\ bpc = "normalized" => ~HasCycle(tree)

\* a cyclic parentId chain of distinct ids went through both functions
C22_CyclicChainNormalized ==
    /\ bpc = "normalized" /\ DistinctIds(items)
    /\ \E i \in Indices(items) : OnCycle(items, items[i].id)

-----------------------------------------------------------------------------
(* Claims about withRetry and generateMindMapStructure, checked under SpecGen *)

IsCall(e) == e.ev = "call"
IsSleep(e) == e.ev = "sleep"
Calls == SelectSeq(trace, IsCall)
Sleeps == SelectSeq(trace, IsSleep)

\* withRetry has returned or thrown
RetryOver == gpc \in {"retryReturned", "retryThrown", "returned", "thrown"}

\* C5: buildTreeFromFlat on the empty list returns a childless synthetic
\* root and does not fail, so generateMindMapStructure returns that root
\* when the response body is the empty array.
C5_EmptyListGivesChildlessRoot ==
    /\ (/\ gpc \in {"returned", "thrown"}
        /\ response.valid
        /\ response.json.type = "array"
        /\ Len(response.json.elems) = 0) => (gpc = "returned" /\ Len(items) = 0)
    /\ (gpc = "returned" /\ Len(items) = 0) =>
          /\ tree.rootRef = SynthRef
          /\ tree.heap[SynthRef].children = <<>>
          /\ Reachable(tree) = {SynthRef}

C5_EmptyArrayReturned ==
    /\ gpc = "returned"
    /\ response.valid
    /\ response.json.type = "array"
    /\ Len(response.json.elems) = 0
    /\ tree.rootRef = SynthRef

\* C7: fn is called at most retries + 1 times (3 with the default budget);
\* a transient failure with budget left is followed by a sleep and another
\* attempt; a permanent failure, a failure on the last attempt and a
\* success each end the call at once, the success with its value returned.
C7_AtMostRetriesPlusOneCalls ==
    /\ Len(Calls) <= retries + 1
    /\ retries = DefaultRetries => Len(Calls) <= 3
    /\ \A k \in 1..Len(trace) :
          IsCall(trace[k]) =>
             IF trace[k].outcome = "rejected" /\ trace[k].transient
                   /\ trace[k].attempt < retries
             THEN /\ k < Len(trace)
                  /\ IsSleep(trace[k + 1])
                  /\ IF k + 1 = Len(trace)
                     THEN gpc \in {"sleeping", "attempt"}
                     ELSE /\ IsCall(trace[k + 2])
                          /\ trace[k + 2].attempt = trace[k].attempt + 1
             ELSE /\ k = Len(trace)
                  /\ RetryOver
                  /\ trace[k].outcome = "resolved" =>
                        (response = trace[k].value /\ gpc # "retryThrown")
                  /\ trace[k].outcome = "rejected" =>
                        gpc \in {"retryThrown", "thrown"}

C7_BudgetExhausted ==
    /\ gpc = "retryThrown"
    /\ retries = DefaultRetries
    /\ Len(Calls) = 3
    /\ \A k \in 1..Len(Calls) : Calls[k].transient

\* C8: every sleep directly follows a transient failure of some attempt k
\* and lasts baseDelayMs * 2^k; consecutive attempts are separated by
\* exactly one sleep; a transient failure of the first attempt followed by a
\* success returns the success after one sleep of baseDelayMs.
C8_BackoffBetweenAttempts ==
    /\ \A k \in 1..Len(trace) :
          IsSleep(trace[k]) =>
             /\ k > 1
             /\ IsCall(trace[k - 1])
             /\ trace[k - 1].outcome = "rejected"
             /\ trace[k - 1].transient
             /\ trace[k - 1].attempt = trace[k].attempt
             /\ trace[k].ms = baseDelayMs * (2 ^ trace[k].attempt)
    /\ \A k \in 2..Len(trace) :
          IsCall(trace[k]) =>
             /\ IsSleep(trace[k - 1])
             /\ k > 2
             /\ IsCall(trace[k - 2])
             /\ trace[k].attempt = trace[k - 2].attempt + 1
    /\ Len(trace) >= 1 => IsCall(trace[1]) /\ trace[1].attempt = 0
    /\ (Len(trace) = 3 /\ trace[3].outcome = "resolved") =>
          /\ Len(Sleeps) = 1
          /\ Sleeps[1].ms = baseDelayMs
          /\ RetryOver
          /\ response = trace[3].value

C8_RetriedOnceThenSucceeded ==
    /\ gpc = "retryReturned"
    /\ baseDelayMs = DefaultBaseDelayMs
    /\ Len(trace) = 3
    /\ trace[1].transient
    /\ trace[2].ms = 800
    /\ trace[3].outcome = "resolved"

\* withRetry has thrown (line 125)
RetryFailed == gpc = "retryThrown" \/ (gpc = "thrown" /\ caught = lastErr /\ response = NoResponse)

\* C23: when withRetry fails it throws the error of the last call of fn it
\* made; it never sleeps after its last call, a transient failure of attempt
\* number retries included; so once it is over the sleeps are one fewer than
\* the calls.
C23_ThrowsLastErrorWithoutSleeping ==
    /\ RetryFailed =>
          /\ Len(Calls) >= 1
          /\ lastErr = Calls[Len(Calls)].err
          /\ gpc = "thrown" => caught = Calls[Len(Calls)].err
    /\ RetryOver =>
          /\ IsCall(trace[Len(trace)])
          /\ Len(Sleeps) = Len(Calls) - 1
    /\ (Len(trace) >= 1 /\ IsCall(trace[Len(trace)])
           /\ trace[Len(trace)].outcome = "rejected"
           /\ trace[Len(trace)].attempt = retries) => RetryFailed

\* C23's case: the budget ran out on a transient failure other than the
\* first one
C23_LastOfThreeErrorsThrown ==
    /\ gpc = "retryThrown"
    /\ Len(Calls) = 3 /\ Len(Sleeps) = 2
    /\ Calls[3].transient /\ Calls[3].attempt = retries
    /\ Calls[1].err # Calls[3].err /\ Calls[2].err # Calls[3].err

\* the last call of fn failed transiently on the last attempt of the budget
ExhaustedTransient ==
    /\ Len(trace) >= 1
    /\ LET last == trace[Len(trace)]
       IN /\ IsCall(last) /\ last.outcome = "rejected"
          /\ last.transient /\ last.attempt = retries

\* C9: a failing generateMindMapStructure throws one user-facing error: the
\* "service unreachable" one exactly when a transient failure exhausted the
\* retry budget, the "generation failed" one for a permanent failure and
\* for a parse or tree-building failure.
C9_UnreachableIffTransientExhausted ==
    gpc = "thrown" =>
        /\ thrown \in {UnreachableMessage, FailedMessage}
        /\ thrown = UnreachableMessage <=> ExhaustedTransient

\* the body is not a flat record list: invalid JSON, no array, or an array
\* with an element that is no record
NotARecordList(resp) ==
    \/ ~resp.valid
    \/ resp.json.type # "array"
    \/ \E i \in 1..Len(resp.json.elems) : IsNull(resp.json.elems[i])

\* C10: when the response body cannot be parsed as a flat record list,
\* generateMindMapStructure fails with the "generation failed" error,
\* returns no tree and does not call the generation service again.
C10_UnparseableBodyFails ==
    (/\ gpc \in {"returned", "thrown"}
     /\ Len(trace) >= 1
     /\ trace[Len(trace)].outcome = "resolved"
     /\ NotARecordList(response)) =>
        /\ gpc = "thrown"
        /\ thrown = FailedMessage
        /\ tree = NoTree
        /\ Len(SelectSeq(Calls, LAMBDA e : e.outcome = "resolved")) = 1

-----------------------------------------------------------------------------
(* layoutTree and calculateTreeWidth (MindMap.tsx 48-70)                   *)
(*                                                                         *)
(* The data prop is an object graph [rootRef, heap] as buildTreeFromFlat   *)
(* returns it.  The NodePosition tree layoutTree returns is a nested       *)
(* record: layoutTree creates one fresh object per visit, so a node that   *)
(* is the child of two parents is laid out once under each.                *)

\* lines 6-9
NODE_WIDTH == 180
NODE_HEIGHT == 80
HORIZONTAL_SPACING == 60
VERTICAL_SPACING == 60

\* line 67: the footprint of a leaf
LeafWidth_BoxOnly == NODE_WIDTH

LeafWidth == NODE_WIDTH + HORIZONTAL_SPACING

\* lines 65-70
RECURSIVE calculateTreeWidth(_, _)
calculateTreeWidth(t, ref) ==
    LET ch == t.heap[ref].children
        RECURSIVE Sum(_)
        Sum(k) == IF k = 0 THEN 0 ELSE Sum(k - 1) + calculateTreeWidth(t, ch[k])
    IN IF Len(ch) = 0 THEN LeafWidth ELSE Sum(Len(ch))

Max(a, b) == IF a >= b THEN a ELSE b

\* line 53: the left edge of the first child's footprint, shifted by half a
\* box.  Every halved quantity is even: a footprint is a sum of leaf widths.
FirstX_LeftAligned(x, totalWidth) == x

FirstX(x, totalWidth) == x - (totalWidth \div 2) + (NODE_WIDTH \div 2)

\* line 58
ChildY_NoGap(y) == y + NODE_HEIGHT

ChildY(y) == y + NODE_HEIGHT + VERTICAL_SPACING

\* lines 48-63; the loop of lines 55-61 is LayoutChildren
RECURSIVE layoutTree(_, _, _, _)
layoutTree(t, ref, x, y) ==
    LET node == t.heap[ref]
        ch == node.children
        RECURSIVE Widths(_)
        Widths(k) == IF k = 0 THEN 0 ELSE Widths(k - 1) + calculateTreeWidth(t, ch[k])
        childrenWidth == Widths(Len(ch))
        totalWidth == Max(NODE_WIDTH, childrenWidth)
        \* currentX when the loop reaches child k
        CurrentX(k) == FirstX(x, totalWidth) + Widths(k - 1)
        ChildX(k) == CurrentX(k) + (calculateTreeWidth(t, ch[k]) \div 2)
                        - (NODE_WIDTH \div 2)
    IN [id |-> node.id, topic |-> node.topic, content |-> node.content,
        x |-> x, y |-> y,
        children |-> [k \in 1..Len(ch) |-> layoutTree(t, ch[k], ChildX(k), ChildY(y))]]

\* lines 38-40
RECURSIVE flattenNodes(_)
flattenNodes(node) ==
    <<node>> \o Flatten([k \in 1..Len(node.children) |-> flattenNodes(node.children[k])])

-----------------------------------------------------------------------------
(* Inputs of layoutTree: every ordered tree of at most MaxNodes nodes, and *)
(* trees as buildTreeFromFlat returns them                                 *)

MaxNodes == 6

NodeRefs == <<"n1", "n2", "n3", "n4", "n5", "n6", "n7", "n8">>

\* parent vectors: node 1 is the root, the parent of node j > 1 is p[j] < j
ParentVectors(n) == {p \in [2..n -> 1..n] : \A j \in 2..n : p[j] < j}

\* the children of node i, in increasing order
ChildRefs(n, p, i) ==
    LET later == [k \in 1..(n - 1) |-> k + 1]
        Test(j) == p[j] = i
        sel == SelectSeq(later, Test)
    IN [k \in 1..Len(sel) |-> NodeRefs[sel[k]]]

TreeOfParents(n, p) ==
    [rootRef |-> NodeRefs[1],
     heap |-> [r \in {NodeRefs[i] : i \in 1..n} |->
                 LET i == CHOOSE i \in 1..n : NodeRefs[i] = r
                 IN [id |-> r, topic |-> Topics[1], content |-> Contents[1],
                     children |-> ChildRefs(n, p, i)]]]

\* the scenario of two records, a root and its child
ScenarioRecords ==
    <<[id |-> "a", parentId |-> "", topic |-> "Root", content |-> ""],
      [id |-> "b", parentId |-> "a", topic |-> "Child", content |-> ""]>>

\* two records sharing an id: one object, twice a child of the root
TwinRecords ==
    <<[id |-> "root", parentId |-> "", topic |-> "T1", content |-> "C1"],
      [id |-> "a", parentId |-> "root", topic |-> "T2", content |-> "C2"],
      [id |-> "a", parentId |-> "root", topic |-> "T3", content |-> "C3"]>>

ScenarioTree == buildTreeFromFlat(ScenarioRecords)

LayoutInputs ==
    UNION {{TreeOfParents(n, p) : p \in ParentVectors(n)} : n \in 1..MaxNodes}
    \cup {ScenarioTree, buildTreeFromFlat(TwinRecords)}

-----------------------------------------------------------------------------
(* Specification SpecLayout: layoutTree applied to every bounded tree *)

InitLayout ==
    /\ data \in LayoutInputs
    /\ positionedData = NoPositioned
    /\ lpc = "start"
    /\ items = <<>> /\ tree = NoTree /\ bpc = "idle"
    /\ GenIdle /\ ViewIdle /\ AppIdle /\ ActIdle

\* line 72: positionedData = layoutTree(data), x = 0 and y = 0 by default
Layout ==
    /\ lpc = "start"
    /\ positionedData' = layoutTree(data, data.rootRef, 0, 0)
    /\ lpc' = "done"
    /\ UNCHANGED <<data, buildVars, genVars, viewVars, appVars, actVars>>

NextLayout == Layout

SpecLayout == InitLayout /\ [][NextLayout]_vars

-----------------------------------------------------------------------------
(* Claims about layoutTree, checked under SpecLayout *)

SeqMin(s) == CHOOSE m \in {s[k] : k \in 1..Len(s)} : \A k \in 1..Len(s) : m <= s[k]
SeqMax(s) == CHOOSE m \in {s[k] : k \in 1..Len(s)} : \A k \in 1..Len(s) : m >= s[k]

\* x of the node boxes of a positioned subtree
XsOf(q) == LET all == flattenNodes(q) IN [k \in 1..Len(all) |-> all[k].x]
YsOf(q) == LET all == flattenNodes(q) IN [k \in 1..Len(all) |-> all[k].y]

\* the horizontal extent of the boxes of a positioned subtree
LeftEdge(q) == SeqMin(XsOf(q))
RightEdge(q) == SeqMax(XsOf(q)) + NODE_WIDTH

\* the positioned tree has the nodes of the input, children in input order
RECURSIVE OrderKept(_, _, _)
OrderKept(t, ref, q) ==
    LET ch == t.heap[ref].children
    IN /\ q.id = t.heap[ref].id
       /\ q.topic = t.heap[ref].topic
       /\ Len(q.children) = Len(ch)
       /\ \A k \in 1..Len(ch) : OrderKept(t, ch[k], q.children[k])

\* under every node, an earlier child's subtree lies wholly left of a later one's
SiblingSpansDisjoint(q) ==
    LET all == flattenNodes(q)
    IN \A n \in 1..Len(all) :
          \A i, j \in 1..Len(all[n].children) :
              i < j => RightEdge(all[n].children[i]) <= LeftEdge(all[n].children[j])

\* no two boxes overlap, and two boxes of one row are a spacing apart
BoxesApart(q) ==
    LET all == flattenNodes(q)
    IN \A i, j \in 1..Len(all) :
          i < j =>
             IF all[i].y = all[j].y
             THEN Abs(all[i].x - all[j].x) >= NODE_WIDTH + HORIZONTAL_SPACING
             ELSE Abs(all[i].y - all[j].y) >= NODE_HEIGHT

\* C11: layoutTree keeps the children in input order, places sibling
\* subtrees left to right on non-overlapping horizontal spans, lets no two
\* node boxes overlap and keeps boxes of the same depth at least
\* HORIZONTAL_SPACING apart.
C11_SiblingSubtreesApart ==
    lpc = "done" =>
        /\ OrderKept(data, data.rootRef, positionedData)
        /\ SiblingSpansDisjoint(positionedData)
        /\ BoxesApart(positionedData)

\* C11's case: a root over several subtrees, one of them with several leaves
C11_BushyTreeLaidOut ==
    /\ lpc = "done"
    /\ Len(positionedData.children) >= 2
    /\ \E k \in 1..Len(positionedData.children) :
          Len(positionedData.children[k].children) >= 2
    /\ positionedData.children[1].x < positionedData.children[2].x

\* every node of depth d is on row d; an only child is under its parent
RECURSIVE RowsKept(_, _)
RowsKept(q, d) ==
    /\ q.y = d * (NODE_HEIGHT + VERTICAL_SPACING)
    /\ Len(q.children) = 1 => q.children[1].x = q.x
    /\ \A k \in 1..Len(q.children) : RowsKept(q.children[k], d + 1)

\* C12: the root is at (0,0), a node of depth d is at y = d * (NODE_HEIGHT +
\* VERTICAL_SPACING), an only child has the x of its parent, and in the
\* two-record scenario Root is at (0,0) and Child at (0, NODE_HEIGHT +
\* VERTICAL_SPACING).
C12_RowsAndOnlyChild ==
    lpc = "done" =>
        /\ positionedData.x = 0 /\ positionedData.y = 0
        /\ RowsKept(positionedData, 0)
        /\ data = ScenarioTree =>
              /\ positionedData.topic = "Root"
              /\ Len(positionedData.children) = 1
              /\ positionedData.children[1].topic = "Child"
              /\ positionedData.children[1].x = 0
              /\ positionedData.children[1].y = NODE_HEIGHT + VERTICAL_SPACING

\* C12's case: the scenario tree, laid out
C12_ScenarioLaidOut ==
    /\ lpc = "done"
    /\ data = ScenarioTree
    /\ Len(flattenNodes(positionedData)) = 2

\* the width of the span the claim gives a positioned subtree
RECURSIVE SpanWidth(_)
SpanWidth(q) ==
    LET RECURSIVE Sum(_)
        Sum(k) == IF k = 0 THEN 0 ELSE Sum(k - 1) + SpanWidth(q.children[k])
    IN IF Len(q.children) = 0 THEN NODE_WIDTH + HORIZONTAL_SPACING
       ELSE Sum(Len(q.children))

\* q is centred on the span lo..hi, and the spans of its children tile it
RECURSIVE SpansKept(_, _, _)
SpansKept(q, lo, hi) ==
    LET RECURSIVE Start(_)
        Start(k) == IF k = 1 THEN lo ELSE Start(k - 1) + SpanWidth(q.children[k - 1])
    IN /\ 2 * q.x + NODE_WIDTH = lo + hi
       /\ hi - lo = SpanWidth(q)
       /\ \A k \in 1..Len(q.children) :
             SpansKept(q.children[k], Start(k), Start(k) + SpanWidth(q.children[k]))

\* C13: a leaf spans NODE_WIDTH + HORIZONTAL_SPACING, an internal node the
\* sum of the spans of its children; the spans of the children are laid
\* consecutively, every box is centred on its own span, and so the centre of
\* an internal node is the midpoint of the combined span of its children.
C13_CentredOverChildren ==
    lpc = "done" =>
        LET c2 == 2 * positionedData.x + NODE_WIDTH
            w == SpanWidth(positionedData)
        IN SpansKept(positionedData, (c2 - w) \div 2, (c2 + w) \div 2)

\* C13's case: children of unequal spans under one node
C13_UnequalChildrenLaidOut ==
    /\ lpc = "done"
    /\ Len(positionedData.children) = 3
    /\ SpanWidth(positionedData.children[1]) # SpanWidth(positionedData.children[2])

-----------------------------------------------------------------------------
(* The viewport of MindMap: the auto-fit effect, the mouse handlers and    *)
(* the wheel handler (MindMap.tsx 76-134), the pointer handlers            *)
(* (part_002 159-206).  Every handler runs against the committed state:    *)
(* the viewBox it reads is the one the last handler left.                  *)

\* a ViewBox of integers
IntBox(x, y, w, h) ==
    [x |-> Int2Rat(x), y |-> Int2Rat(y), width |-> Int2Rat(w), height |-> Int2Rat(h)]

\* lines 78-86 without the padding
FitBox_Unpadded(q) ==
    LET minX == SeqMin(XsOf(q))
        minY == SeqMin(YsOf(q))
        maxX == SeqMax(XsOf(q)) + NODE_WIDTH
        maxY == SeqMax(YsOf(q)) + NODE_HEIGHT
    IN IntBox(minX, minY, maxX - minX, maxY - minY)

\* lines 78-86: the box the auto-fit effect sets
FitBox(q) ==
    LET minX == SeqMin(XsOf(q)) - HORIZONTAL_SPACING
        minY == SeqMin(YsOf(q)) - VERTICAL_SPACING
        maxX == SeqMax(XsOf(q)) + NODE_WIDTH + HORIZONTAL_SPACING
        maxY == SeqMax(YsOf(q)) + NODE_HEIGHT + VERTICAL_SPACING
    IN IntBox(minX, minY, maxX - minX, maxY - minY)

\* lines 99-103: a pixel delta in scene units
PanOffset_Pixels(pixels, boxSize, rectSize) == Int2Rat(pixels)

PanOffset(pixels, boxSize, rectSize) ==
    RMul(Int2Rat(pixels), RDiv(boxSize, Int2Rat(rectSize)))

\* line 118
scaleFactor == Rat(11, 10)

\* lines 122-123
WheelSize(deltaY, size) ==
    IF deltaY > 0 THEN RMul(size, scaleFactor) ELSE RDiv(size, scaleFactor)

\* lines 125-126
WheelShift_Corner(mouse, rectSize, oldSize, newSize) == Int2Rat(0)

WheelShift(mouse, rectSize, oldSize, newSize) ==
    RMul(Rat(mouse, rectSize), RSub(oldSize, newSize))

\* Math.hypot, on the deltas whose length is an integer
Hypot(dx, dy) == CHOOSE r \in 0..(Abs(dx) + Abs(dy)) : r * r = dx * dx + dy * dy

\* Map.prototype.set on a map held as the sequence of its entries: the entry
\* of a present key is replaced in place, that of a new key is appended
HasPointer(m, id) == \E k \in 1..Len(m) : m[k].id = id

PointerSet(m, id, p) ==
    IF HasPointer(m, id)
    THEN [k \in 1..Len(m) |-> IF m[k].id = id THEN [id |-> id, x |-> p.x, y |-> p.y]
                                              ELSE m[k]]
    ELSE Append(m, [id |-> id, x |-> p.x, y |-> p.y])

\* Map.prototype.delete
PointerDelete(m, id) == LET Keep(e) == e.id # id IN SelectSeq(m, Keep)

\* part_002 lines 164-175: the snapshot taken when two pointers are down
PinchSnapshot(pts, box, r) ==
    LET cx2 == pts[1].x + pts[2].x          \* twice cx
        cy2 == pts[1].y + pts[2].y
    IN [set |-> TRUE,
        distance |-> Hypot(pts[1].x - pts[2].x, pts[1].y - pts[2].y),
        centerSvg |->
            [x |-> RAdd(box.x, RMul(Rat(cx2 - 2 * r.left, 2 * r.width), box.width)),
             y |-> RAdd(box.y, RMul(Rat(cy2 - 2 * r.top, 2 * r.height), box.height))],
        viewBox |-> box,
        pair |-> {pts[1].id, pts[2].id}]

\* part_002 lines 190-197: the viewBox of a pinch update, newDist > 0
PinchBox_KeepCorner(ps, newDist) ==
    LET scale == Rat(ps.distance, newDist)
    IN [x |-> ps.viewBox.x, y |-> ps.viewBox.y,
        width |-> RMul(ps.viewBox.width, scale),
        height |-> RMul(ps.viewBox.height, scale)]

PinchBox(ps, newDist) ==
    LET scale == Rat(ps.distance, newDist)
        cx == ps.centerSvg.x
        cy == ps.centerSvg.y
    IN [x |-> RSub(cx, RMul(RSub(cx, ps.viewBox.x), scale)),
        y |-> RSub(cy, RMul(RSub(cy, ps.viewBox.y), scale)),
        width |-> RMul(ps.viewBox.width, scale),
        height |-> RMul(ps.viewBox.height, scale)]

-----------------------------------------------------------------------------
(* Inputs of the viewport *)

\* the setViewBox calls a behaviour makes
MaxEvents == 3

\* the trees MindMap is given
ViewTrees == {ScenarioTree, TreeOfParents(4, [j \in 2..4 |-> 1])}

\* getBoundingClientRect of the svg element
Rects == {[left |-> 10, top |-> 20, width |-> 800, height |-> 600]}

\* clientX, clientY of the events: three points of one line, 100 pixels apart
PixelPoints ==
    {[x |-> 10, y |-> 20], [x |-> 70, y |-> 100], [x |-> 130, y |-> 180]}

\* where the wheel turns: the two points inside the svg element
WheelPoints == {p \in PixelPoints : p.x > 10}

\* where the button is pressed: the two upper left points
PressPoints == {p \in PixelPoints : p.x < 130}

\* deltaY of a wheel event
WheelDeltas == {-100, 0, 100}

PointerIds == {1, 2, 3}

\* where each pointer is seen: the first and the third keep to one point, the
\* second visits all three, so that two pointers are 0, 100 or 200 apart
PointerPoints(id) ==
    IF id = 2 THEN PixelPoints
    ELSE {p \in PixelPoints : p.x = (IF id = 1 THEN 10 ELSE 130)}

CanChange == Len(log) < MaxEvents

-----------------------------------------------------------------------------
(* Specification SpecView: the MindMap of MindMap.tsx is mounted with a    *)
(* tree; the tree is replaced, the mouse drags and the wheel turns         *)

InitView ==
    /\ data \in ViewTrees
    /\ positionedData = layoutTree(data, data.rootRef, 0, 0)
    /\ lpc = "done"
    /\ viewBox = InitialViewBox
    /\ rect \in Rects
    /\ fitPending = TRUE
    /\ isPanning = FALSE /\ startPoint = OriginPoint
    /\ activePointers = <<>> /\ pinchState = NoPinch /\ log = <<>>
    /\ items = <<>> /\ tree = NoTree /\ bpc = "idle"
    /\ GenIdle /\ AppIdle /\ ActIdle

\* lines 72-73: MindMap is rendered with another data object; the memos are
\* recomputed and the effect of line 76 is scheduled
SetData(d) ==
    /\ data' = d
    /\ positionedData' = layoutTree(d, d.rootRef, 0, 0)
    /\ fitPending' = TRUE
    /\ UNCHANGED <<lpc, viewBox, rect, isPanning, startPoint, activePointers,
                   pinchState, log, buildVars, genVars, appVars, actVars>>

\* lines 76-88: the auto-fit effect; allNodes always holds the root
AutoFit ==
    /\ fitPending
    /\ CanChange
    /\ viewBox' = FitBox(positionedData)
    /\ fitPending' = FALSE
    /\ log' = Append(log, [ev |-> "fit", before |-> viewBox,
                           after |-> FitBox(positionedData)])
    /\ UNCHANGED <<layoutVars, rect, isPanning, startPoint, activePointers,
                   pinchState, buildVars, genVars, appVars, actVars>>

\* lines 91-94
MouseDown(p) ==
    /\ isPanning' = TRUE
    /\ startPoint' = p
    /\ UNCHANGED <<layoutVars, viewBox, rect, fitPending, activePointers,
                   pinchState, log, buildVars, genVars, appVars, actVars>>

\* line 97: if (!isPanning.current || !svgRef.current) return; the svg
\* element is mounted
MoveIgnored_Never(panning) == FALSE

MoveIgnored(panning) == ~panning

\* lines 96-107
MouseMove(p) ==
    /\ IF MoveIgnored(isPanning)
       THEN UNCHANGED <<viewBox, log, startPoint>>
       ELSE /\ CanChange
            /\ LET dx == PanOffset(p.x - startPoint.x, viewBox.width, rect.width)
                   dy == PanOffset(p.y - startPoint.y, viewBox.height, rect.height)
                   box == [viewBox EXCEPT !.x = RSub(@, dx), !.y = RSub(@, dy)]
               IN /\ viewBox' = box
                  /\ log' = Append(log, [ev |-> "mousemove", before |-> viewBox,
                                         after |-> box,
                                         dx |-> p.x - startPoint.x,
                                         dy |-> p.y - startPoint.y])
            /\ startPoint' = p
    /\ UNCHANGED <<layoutVars, rect, fitPending, isPanning, activePointers,
                   pinchState, buildVars, genVars, appVars, actVars>>

\* lines 109-111, for mouseup and mouseleave
MouseUp ==
    /\ isPanning' = FALSE
    /\ UNCHANGED <<layoutVars, viewBox, rect, fitPending, startPoint,
                   activePointers, pinchState, log, buildVars, genVars, appVars, actVars>>

\* lines 113-134
Wheel(p, deltaY) ==
    /\ CanChange
    /\ LET mouseX == p.x - rect.left
           mouseY == p.y - rect.top
           newWidth == WheelSize(deltaY, viewBox.width)
           newHeight == WheelSize(deltaY, viewBox.height)
           dx == WheelShift(mouseX, rect.width, viewBox.width, newWidth)
           dy == WheelShift(mouseY, rect.height, viewBox.height, newHeight)
           box == [x |-> RAdd(viewBox.x, dx), y |-> RAdd(viewBox.y, dy),
                   width |-> newWidth, height |-> newHeight]
       IN /\ viewBox' = box
          /\ log' = Append(log, [ev |-> "wheel", before |-> viewBox,
                                 after |-> box, p |-> p, deltaY |-> deltaY])
    /\ UNCHANGED <<layoutVars, rect, fitPending, isPanning, startPoint,
                   activePointers, pinchState, buildVars, genVars, appVars, actVars>>

NextView ==
    \/ \E d \in ViewTrees : SetData(d)
    \/ AutoFit
    \/ \E p \in PressPoints : MouseDown(p)
    \/ \E p \in PixelPoints : MouseMove(p)
    \/ MouseUp
    \/ \E p \in WheelPoints, deltaY \in WheelDeltas : Wheel(p, deltaY)

SpecView == InitView /\ [][NextView]_vars

-----------------------------------------------------------------------------
(* Specification SpecPinch: the MindMap of part_002 is mounted and fitted; *)
(* pointers go down, move and go up                                        *)

InitPinch ==
    /\ data \in ViewTrees
    /\ positionedData = layoutTree(data, data.rootRef, 0, 0)
    /\ lpc = "done"
    /\ viewBox = FitBox(positionedData)
    /\ rect \in Rects
    /\ fitPending = FALSE
    /\ isPanning = FALSE /\ startPoint = OriginPoint
    /\ activePointers = <<>> /\ pinchState = NoPinch /\ log = <<>>
    /\ items = <<>> /\ tree = NoTree /\ bpc = "idle"
    /\ GenIdle /\ AppIdle /\ ActIdle

\* part_002 lines 159-177
PointerDown(id, p) ==
    LET m == PointerSet(activePointers, id, p)
    IN /\ activePointers' = m
       /\ pinchState' = IF Len(m) = 2 THEN PinchSnapshot(m, viewBox, rect)
                        ELSE pinchState
       /\ UNCHANGED <<layoutVars, viewBox, rect, fitPending, isPanning,
                      startPoint, log, buildVars, genVars, appVars, actVars>>

\* the setViewBox calls a behaviour of the pointer handlers makes
MaxPinchUpdates == 2

\* part_002 lines 179-199
PointerMove(id, p) ==
    LET m == IF HasPointer(activePointers, id) THEN PointerSet(activePointers, id, p)
             ELSE activePointers
        newDist == Hypot(m[1].x - m[2].x, m[1].y - m[2].y)
    IN /\ activePointers' = m
       /\ IF Len(m) = 2 /\ pinchState.set /\ newDist > 0
          THEN /\ Len(log) < MaxPinchUpdates
               /\ viewBox' = PinchBox(pinchState, newDist)
               /\ log' = Append(log, [ev |-> "pointermove"])
          ELSE UNCHANGED <<viewBox, log>>
       /\ UNCHANGED <<layoutVars, rect, fitPending, isPanning, startPoint,
                      pinchState, buildVars, genVars, appVars, actVars>>

\* part_002 line 203
DropsPinch_WhenEmpty(m) == Len(m) < 1

DropsPinch(m) == Len(m) < 2

\* part_002 lines 201-206, for pointerup and pointercancel
PointerUp(id) ==
    LET m == PointerDelete(activePointers, id)
    IN /\ activePointers' = m
       /\ pinchState' = IF DropsPinch(m) THEN NoPinch ELSE pinchState
       /\ UNCHANGED <<layoutVars, viewBox, rect, fitPending, isPanning,
                      startPoint, log, buildVars, genVars, appVars, actVars>>

NextPinch ==
    \/ \E id \in PointerIds : \E p \in PointerPoints(id) : PointerDown(id, p)
    \/ \E id \in PointerIds : \E p \in PointerPoints(id) : PointerMove(id, p)
    \/ \E id \in PointerIds : PointerUp(id)

SpecPinch == InitPinch /\ [][NextPinch]_vars

-----------------------------------------------------------------------------
(* Claims about the viewport, checked under SpecView and SpecPinch *)

Last(s) == s[Len(s)]

\* the ViewBox the claim gives the nodes of a positioned tree
ClaimedFit(q) ==
    LET minX == SeqMin(XsOf(q))
        maxX == SeqMax(XsOf(q))
        minY == SeqMin(YsOf(q))
        maxY == SeqMax(YsOf(q))
    IN IntBox(minX - HORIZONTAL_SPACING, minY - VERTICAL_SPACING,
              maxX - minX + NODE_WIDTH + 2 * HORIZONTAL_SPACING,
              maxY - minY + NODE_HEIGHT + 2 * VERTICAL_SPACING)

\* the box of node n lies strictly inside the ViewBox
StrictlyInside(n, box) ==
    /\ RLess(box.x, Int2Rat(n.x))
    /\ RLess(Int2Rat(n.x + NODE_WIDTH), RAdd(box.x, box.width))
    /\ RLess(box.y, Int2Rat(n.y))
    /\ RLess(Int2Rat(n.y + NODE_HEIGHT), RAdd(box.y, box.height))

\* the auto-fit effect ran last and the tree has not been replaced since
JustFitted == Len(log) > 0 /\ Last(log).ev = "fit" /\ ~fitPending

\* C14: after the tree is replaced the auto-fit sets the ViewBox to the
\* bounding box of the node boxes padded by one spacing on each side,
\* whatever the ViewBox was before, and every node box lies strictly inside.
C14_FitReplacesViewBox ==
    JustFitted =>
        /\ viewBox = ClaimedFit(positionedData)
        /\ Last(log).after = viewBox
        /\ LET all == flattenNodes(positionedData)
           IN \A k \in 1..Len(all) : StrictlyInside(all[k], viewBox)

\* C14's case: a zoom, a pan, then another tree and its fit
C14_FittedAfterGestures ==
    /\ JustFitted
    /\ Len(log) = 3
    /\ log[1].ev = "wheel" /\ log[2].ev = "mousemove"
    /\ Last(log).before # InitialViewBox
    /\ Last(log).before # Last(log).after
    /\ Len(flattenNodes(positionedData)) = 4

IsMove(e) == e.ev = "mousemove"

\* C15: a drag step moves ViewBox.x and ViewBox.y against the pixel delta
\* times viewBox.width / pixel width (resp. height) and keeps width and
\* height; a drag by (dx,dy) followed by a drag by (-dx,-dy) restores the
\* ViewBox.
C15_PanScaledAndInvertible ==
    /\ \A k \in 1..Len(log) :
          IsMove(log[k]) =>
             LET b == log[k].before
                 a == log[k].after
             IN /\ a.x = RSub(b.x, RMul(Int2Rat(log[k].dx),
                                        RDiv(b.width, Int2Rat(rect.width))))
                /\ a.y = RSub(b.y, RMul(Int2Rat(log[k].dy),
                                        RDiv(b.height, Int2Rat(rect.height))))
                /\ a.width = b.width /\ a.height = b.height
    /\ \A k \in 1..(Len(log) - 1) :
          (/\ IsMove(log[k]) /\ IsMove(log[k + 1])
           /\ log[k + 1].dx = -log[k].dx /\ log[k + 1].dy = -log[k].dy)
          => log[k + 1].after = log[k].before

\* C15's case: a zoomed ViewBox dragged away and back
C15_DraggedThereAndBack ==
    /\ Len(log) = 3
    /\ log[1].ev = "wheel" /\ IsMove(log[2]) /\ IsMove(log[3])
    /\ log[2].dx # 0 /\ log[3].dx = -log[2].dx /\ log[3].dy = -log[2].dy
    /\ log[2].after # log[2].before
    /\ viewBox = log[2].before

IsWheel(e) == e.ev = "wheel"

\* the factor of a wheel event
ClaimedFactor(deltaY) == IF deltaY > 0 THEN Rat(11, 10) ELSE Rat(10, 11)

\* the scene coordinate shown at pixel offset (mx, my) of the svg element
SceneAt(box, mx, my) ==
    [x |-> RAdd(box.x, RMul(Rat(mx, rect.width), box.width)),
     y |-> RAdd(box.y, RMul(Rat(my, rect.height), box.height))]

\* C16: a wheel event at pixel point p multiplies width and height by 1.1
\* (zoom out) or 1/1.1 (zoom in) and keeps the scene coordinate shown at p;
\* a zoom at p followed by the inverse zoom at p restores the ViewBox.
C16_ZoomAnchoredAndInvertible ==
    /\ \A k \in 1..Len(log) :
          IsWheel(log[k]) =>
             LET b == log[k].before
                 a == log[k].after
                 mx == log[k].p.x - rect.left
                 my == log[k].p.y - rect.top
             IN /\ a.width = RMul(b.width, ClaimedFactor(log[k].deltaY))
                /\ a.height = RMul(b.height, ClaimedFactor(log[k].deltaY))
                /\ SceneAt(a, mx, my) = SceneAt(b, mx, my)
    /\ \A k \in 1..(Len(log) - 1) :
          (/\ IsWheel(log[k]) /\ IsWheel(log[k + 1])
           /\ log[k + 1].p = log[k].p
           /\ (log[k].deltaY > 0) # (log[k + 1].deltaY > 0))
          => log[k + 1].after = log[k].before

\* C16's case: a fitted ViewBox zoomed in at a point and out again
C16_ZoomedInAndOut ==
    /\ Len(log) = 3
    /\ log[1].ev = "fit" /\ IsWheel(log[2]) /\ IsWheel(log[3])
    /\ log[2].deltaY < 0 /\ log[3].deltaY > 0 /\ log[3].p = log[2].p
    /\ log[2].after.x # log[2].before.x
    /\ viewBox = log[2].before

\* C17: the pinch snapshot exists exactly when at least two pointers are
\* active; when the count reaches two it holds the distance of the two
\* pointers, their midpoint in scene coordinates and the ViewBox of that
\* moment; while no snapshot exists no pointer event changes the ViewBox.
C17_SnapshotIffTwoPointers ==
    /\ [](pinchState.set <=> Len(activePointers) >= 2)
    /\ [][(Len(activePointers) < 2 /\ Len(activePointers') = 2) =>
            LET m == activePointers'
                mid2x == m[1].x + m[2].x - 2 * rect.left
                mid2y == m[1].y + m[2].y - 2 * rect.top
            IN /\ pinchState'.distance = Hypot(m[1].x - m[2].x, m[1].y - m[2].y)
               /\ pinchState'.centerSvg =
                     [x |-> RAdd(viewBox.x, RMul(Rat(mid2x, 2 * rect.width), viewBox.width)),
                      y |-> RAdd(viewBox.y, RMul(Rat(mid2y, 2 * rect.height), viewBox.height))]
               /\ pinchState'.viewBox = viewBox]_vars
    /\ [][~pinchState.set => viewBox' = viewBox]_vars

\* C17's case: a pinch changed the ViewBox and one of the pointers went up
C17_PinchEnded ==
    /\ Len(activePointers) = 1
    /\ ~pinchState.set
    /\ Len(log) > 0
    /\ viewBox # FitBox(positionedData)

\* the distance of the two active pointers
CurrentDistance(m) == Hypot(m[1].x - m[2].x, m[1].y - m[2].y)

\* the same pointers, one of them elsewhere
PointerMoved(m, n) ==
    /\ Len(m) = Len(n)
    /\ \A k \in 1..Len(m) : m[k].id = n[k].id
    /\ m # n

\* C18: while pinching with snapshot distance d0, midpoint c and ViewBox v,
\* a move that leaves the two pointers d > 0 apart sets width = v.width *
\* d0/d and height = v.height * d0/d and keeps c at the same relative
\* position inside the ViewBox; with d = d0/2 width and height double.
C18_PinchScalesAboutMidpoint ==
    [][(/\ pinchState.set /\ pinchState' = pinchState
        /\ Len(activePointers') = 2
        /\ PointerMoved(activePointers, activePointers')
        /\ CurrentDistance(activePointers') > 0)
       => LET d0 == pinchState.distance
              d == CurrentDistance(activePointers')
              v == pinchState.viewBox
              c == pinchState.centerSvg
          IN /\ viewBox'.width = RMul(v.width, Rat(d0, d))
             /\ viewBox'.height = RMul(v.height, Rat(d0, d))
             /\ RMul(RSub(c.x, viewBox'.x), v.width)
                   = RMul(RSub(c.x, v.x), viewBox'.width)
             /\ RMul(RSub(c.y, viewBox'.y), v.height)
                   = RMul(RSub(c.y, v.y), viewBox'.height)
             /\ 2 * d = d0 =>
                   /\ viewBox'.width = RMul(Int2Rat(2), v.width)
                   /\ viewBox'.height = RMul(Int2Rat(2), v.height)]_vars

\* C18's case: two pointers 200 apart were brought 100 apart
C18_DistanceHalved ==
    /\ pinchState.set /\ Len(activePointers) = 2
    /\ pinchState.distance = 2 * CurrentDistance(activePointers)
    /\ CurrentDistance(activePointers) > 0
    /\ viewBox.width = RMul(Int2Rat(2), pinchState.viewBox.width)
    /\ viewBox.x # pinchState.viewBox.x

-----------------------------------------------------------------------------
(* The search effect and the export of App (part_001 15-26, 50-80,         *)
(* 108-146).  The topic and the content of a node are character sequences  *)
(* here; a missing one is UndefinedText.                                   *)

UndefinedText == <<Undefined>>

\* JavaScript truthiness of a string-or-undefined value held as characters
TruthyText(s) == s # UndefinedText /\ s # EmptyString

WhiteSpace == {" ", "\t", "\n"}

\* String.prototype.trim
RECURSIVE trim(_)
trim(s) ==
    IF Len(s) = 0 THEN s
    ELSE IF Head(s) \in WhiteSpace THEN trim(Tail(s))
    ELSE IF s[Len(s)] \in WhiteSpace THEN trim(SubSeq(s, 1, Len(s) - 1))
    ELSE s

\* part_001 line 55: the test of one node; toLowerCase of undefined throws
NodeTest(q, node) ==
    IF node.topic = UndefinedText THEN [threw |-> TRUE, hit |-> FALSE]
    ELSE IF includes(toLowerCase(node.topic), q) THEN [threw |-> FALSE, hit |-> TRUE]
    ELSE IF node.content = UndefinedText THEN [threw |-> TRUE, hit |-> FALSE]
    ELSE [threw |-> FALSE, hit |-> includes(toLowerCase(node.content), q)]

\* part_001 lines 52-61 on one node: the matching nodes, or the TypeError
\* of line 55
RECURSIVE SearchNode(_, _, _)
SearchNode(lowerCaseQuery, t, ref) ==
    LET node == t.heap[ref]
        own == NodeTest(lowerCaseQuery, node)
        sub == [k \in 1..Len(node.children) |->
                   SearchNode(lowerCaseQuery, t, node.children[k])]
    IN [threw |-> own.threw \/ \E k \in 1..Len(sub) : sub[k].threw,
        matches |-> (IF own.hit THEN <<ref>> ELSE <<>>) \o
                    Flatten([k \in 1..Len(sub) |-> sub[k].matches])]

\* part_001 lines 50-62
searchInMindMap(query, t) ==
    IF t = NoTree THEN [threw |-> FALSE, matches |-> <<>>]
    ELSE SearchNode(toLowerCase(query), t, t.rootRef)

\* part_002 lines 94 and 240-243: isSearchMatch of MindMap for one node
isSearchMatch(query, node) ==
    LET lowerCaseQuery == toLowerCase(trim(query))
    IN IF lowerCaseQuery = EmptyString THEN [threw |-> FALSE, hit |-> FALSE]
       ELSE NodeTest(lowerCaseQuery, node)

\* part_002 lines 238-247: the nodes MindMap renders as search matches
SearchMatches(query, t) ==
    {r \in DOMAIN t.heap : isSearchMatch(query, t.heap[r]).hit}

\* part_001 line 17: '  '.repeat(depth)
RECURSIVE Indent_OneSpace(_)
Indent_OneSpace(depth) == IF depth = 0 THEN <<>> ELSE <<" ">> \o Indent_OneSpace(depth - 1)

RECURSIVE Indent(_)
Indent(depth) == IF depth = 0 THEN <<>> ELSE <<" ", " ">> \o Indent(depth - 1)

\* a value inside a template literal
TemplateText(s) ==
    IF s = UndefinedText THEN <<"u", "n", "d", "e", "f", "i", "n", "e", "d">> ELSE s

Label_Topic == <<"T", "o", "p", "i", "c", ":", " ">>
Label_Content == <<"C", "o", "n", "t", "e", "n", "t", ":", " ">>

\* part_001 lines 16-21: the text of one node
NodeText(node, depth) ==
    Indent(depth) \o Label_Topic \o TemplateText(node.topic) \o <<"\n">> \o
    (IF TruthyText(node.content)
     THEN Indent(depth) \o Label_Content \o node.content \o <<"\n", "\n">>
     ELSE <<>>)

\* part_001 lines 15-26
RECURSIVE formatMindMapForPdf(_, _, _)
formatMindMapForPdf(t, ref, depth) ==
    LET node == t.heap[ref]
    IN NodeText(node, depth) \o
       Flatten([k \in 1..Len(node.children) |->
                   formatMindMapForPdf(t, node.children[k], depth + 1)])

-----------------------------------------------------------------------------
(* Inputs of App: trees of at most MaxAppNodes nodes, labelled; queries *)

MaxAppNodes == 3

\* topic and content of a node; the last two lack one of them
NodeLabels ==
    {[topic |-> <<"A", "b">>, content |-> <<>>],
     [topic |-> <<"b">>, content |-> <<"a", "B", " ", "c">>],
     [topic |-> UndefinedText, content |-> <<"b">>],
     [topic |-> <<"c">>, content |-> UndefinedText]}

LabelledTree(n, p, lab) ==
    [rootRef |-> NodeRefs[1],
     heap |-> [r \in {NodeRefs[i] : i \in 1..n} |->
                 LET i == CHOOSE i \in 1..n : NodeRefs[i] = r
                 IN [id |-> r, topic |-> lab[i].topic, content |-> lab[i].content,
                     children |-> ChildRefs(n, p, i)]]]

\* null, before a mind map is generated, or a generated tree
AppTrees ==
    {NoTree} \cup
    UNION {{LabelledTree(n, p, lab) : p \in ParentVectors(n), lab \in [1..n -> NodeLabels]}
              : n \in 1..MaxAppNodes}

Queries ==
    {<<>>, <<" ">>, <<"b">>, <<"A", "B">>, <<" ", "c">>, <<"b", " ">>, <<"z">>}

-----------------------------------------------------------------------------
(* Specification SpecApp: App holds a mind map and a query; the search     *)
(* effect runs, then the user exports                                      *)

InitApp ==
    /\ mindMapData \in AppTrees
    /\ searchQuery \in Queries
    /\ searchResults = <<>>
    /\ mindMapText = <<>>
    /\ apc = "rendered"
    /\ items = <<>> /\ tree = NoTree /\ bpc = "idle"
    /\ GenIdle /\ LayoutIdle /\ ViewIdle /\ ActIdle

\* part_001 lines 73-80; an error thrown by an effect unmounts App
SearchEffect ==
    /\ apc = "rendered"
    /\ IF trim(searchQuery) # EmptyString /\ mindMapData # NoTree
       THEN LET res == searchInMindMap(searchQuery, mindMapData)
            IN IF res.threw
               THEN apc' = "crashed" /\ UNCHANGED searchResults
               ELSE apc' = "searched" /\ searchResults' = res.matches
       ELSE apc' = "searched" /\ searchResults' = <<>>
    /\ UNCHANGED <<mindMapData, searchQuery, mindMapText, buildVars, genVars,
                   layoutVars, viewVars, actVars>>

\* part_001 lines 108-115: handleExportPdf as far as the text
ExportPdf ==
    /\ apc = "searched"
    /\ mindMapText' = IF mindMapData = NoTree THEN mindMapText
                      ELSE formatMindMapForPdf(mindMapData, mindMapData.rootRef, 0)
    /\ apc' = "exported"
    /\ UNCHANGED <<mindMapData, searchQuery, searchResults, buildVars, genVars,
                   layoutVars, viewVars, actVars>>

NextApp == SearchEffect \/ ExportPdf

SpecApp == InitApp /\ [][NextApp]_vars

-----------------------------------------------------------------------------
(* Claims about the search and the export, checked under SpecApp *)

\* the nodes of a tree in depth-first pre-order, each with its depth
RECURSIVE Walk(_, _, _)
Walk(t, ref, depth) ==
    LET ch == t.heap[ref].children
    IN <<[ref |-> ref, depth |-> depth]>> \o
       Flatten([k \in 1..Len(ch) |-> Walk(t, ch[k], depth + 1)])

\* two characters equal up to the case of a letter
SameLetter(a, b) ==
    \/ a = b
    \/ \E k \in 1..Len(UpperCase) : {a, b} = {UpperCase[k], LowerCase[k]}

\* text contains q as a case-insensitive substring
ContainsIgnoringCase(text, q) ==
    /\ text # UndefinedText
    /\ \E i \in 1..(Len(text) - Len(q) + 1) :
          \A j \in 1..Len(q) : SameLetter(text[i + j - 1], q[j])

Blank(q) == \A k \in 1..Len(q) : q[k] \in WhiteSpace

\* what the claim makes the result of a search
ClaimedResults(q, t) ==
    IF Blank(q) \/ t = NoTree THEN <<>>
    ELSE LET Hit(e) == \/ ContainsIgnoringCase(t.heap[e.ref].topic, q)
                       \/ ContainsIgnoringCase(t.heap[e.ref].content, q)
             hits == SelectSeq(Walk(t, t.rootRef, 0), Hit)
         IN [k \in 1..Len(hits) |-> hits[k].ref]

SearchRan == apc # "rendered"

\* C19: the search returns, in pre-order, exactly the nodes whose topic or
\* content contains the query as a case-insensitive substring, and nothing
\* for an empty or whitespace-only query.
C19_SearchFindsMatchesInPreorder ==
    SearchRan =>
        /\ apc # "crashed"
        /\ searchResults = ClaimedResults(searchQuery, mindMapData)

\* every node of the tree has a topic and a content
Typed(t) ==
    t # NoTree =>
        \A r \in DOMAIN t.heap :
            t.heap[r].topic # UndefinedText /\ t.heap[r].content # UndefinedText

\* The statement of C19 restricted to trees whose nodes all have a topic and
\* a content.
C19_TypedTreesSearch ==
    (SearchRan /\ Typed(mindMapData)) =>
        /\ apc # "crashed"
        /\ searchResults = ClaimedResults(searchQuery, mindMapData)

C19_TypedMatchesReached ==
    /\ SearchRan /\ Typed(mindMapData) /\ mindMapData # NoTree
    /\ Len(searchResults) = 2
    /\ Len(Walk(mindMapData, mindMapData.rootRef, 0)) = 3
    /\ searchQuery = <<" ", "c">>

\* the lines of a text, the empty ones left out: the maximal runs of
\* characters other than the line feed, from left to right
NonEmptyLines(s) ==
    LET Feed(i) == i = 0 \/ i = Len(s) + 1 \/ s[i] = "\n"
        runs == {r \in (1..Len(s)) \X (1..Len(s)) :
                    /\ r[1] <= r[2]
                    /\ Feed(r[1] - 1) /\ Feed(r[2] + 1)
                    /\ \A i \in r[1]..r[2] : ~Feed(i)}
        Nth(k) == CHOOSE r \in runs :
                      Cardinality({q \in runs : q[1] < r[1]}) = k - 1
    IN [k \in 1..Cardinality(runs) |-> SubSeq(s, Nth(k)[1], Nth(k)[2])]

RECURSIVE Spaces(_)
Spaces(n) == IF n = 0 THEN <<>> ELSE <<" ">> \o Spaces(n - 1)

TopicLine(node, depth) ==
    Spaces(2 * depth) \o <<"T", "o", "p", "i", "c", ":", " ">> \o TemplateText(node.topic)

ContentLine(node, depth) ==
    Spaces(2 * depth) \o <<"C", "o", "n", "t", "e", "n", "t", ":", " ">>
        \o TemplateText(node.content)

Exported == apc = "exported" /\ mindMapData # NoTree

\* C20 as stated: for every node in depth-first pre-order one Topic line and
\* one Content line, both indented by two spaces per level, so n nodes give
\* n Topic/Content pairs.
C20_TopicAndContentPerNode ==
    Exported =>
        LET order == Walk(mindMapData, mindMapData.rootRef, 0)
        IN NonEmptyLines(mindMapText) =
              Flatten([k \in 1..Len(order) |->
                  <<TopicLine(mindMapData.heap[order[k].ref], order[k].depth),
                    ContentLine(mindMapData.heap[order[k].ref], order[k].depth)>>])

\* C20 as amended: for every node in depth-first pre-order one Topic line,
\* followed by one Content line exactly when the node has a non-empty
\* content, both indented by two spaces per level; n nodes give n Topic
\* lines and as many Content lines as there are nodes with a content.
C20_ContentLineOnlyForContent ==
    Exported =>
        LET order == Walk(mindMapData, mindMapData.rootRef, 0)
        IN NonEmptyLines(mindMapText) =
              Flatten([k \in 1..Len(order) |->
                  LET node == mindMapData.heap[order[k].ref]
                  IN IF TruthyText(node.content)
                     THEN <<TopicLine(node, order[k].depth),
                            ContentLine(node, order[k].depth)>>
                     ELSE <<TopicLine(node, order[k].depth)>>])

\* C20's case: three levels, one node without content between two with it
C20_MixedTreeExported ==
    /\ Exported
    /\ LET order == Walk(mindMapData, mindMapData.rootRef, 0)
       IN /\ Len(order) = 3 /\ order[3].depth = 2
          /\ TruthyText(mindMapData.heap[order[1].ref].content)
          /\ mindMapData.heap[order[2].ref].content = EmptyString
          /\ TruthyText(mindMapData.heap[order[3].ref].content)
    /\ Len(NonEmptyLines(mindMapText)) = 5

-----------------------------------------------------------------------------
(* The actions of App (part_001): generate, export, file import *)

Msg_EnterText == "Please enter some text to generate a mind map."
Msg_GenerateFirst == "Please generate a mind map first."

\* the message of the Error each awaited or called function may throw
Msg_GenerationFailed == "generateMindMapStructure: err.message"
Msg_ImportFailed == "extractTextFromFile: err.message"
Msg_ExportFailed == "jsPDF: err.message"

\* lines 94, 113, 162: setError(null) when an attempt starts
ErrorAtStart_Kept(prev) == prev

ErrorAtStart(prev) == NoError

\* line 228: disabled={isLoading} on the Generate button
GenerateDisabled_Never == FALSE

GenerateDisabled == isLoading

\* line 204: disabled={isLoading} on the Import button
ImportDisabled == isLoading

\* line 236: disabled={!mindMapData} on the Export button
ExportDisabled == mindMapData = NoTree

\* the attempts made so far: an attempt is numbered when it starts
IsAttempt(e) == e.ev \in {"start", "rejected"}

NumAttempts == Len(SelectSeq(events, IsAttempt))

Event(ev, id, kind, msg) == [ev |-> ev, id |-> id, kind |-> kind, msg |-> msg]

-----------------------------------------------------------------------------
(* Inputs of SpecAct *)

MaxAttempts == 3

\* values of documentText and of the text read from a file
DocTexts == {<<>>, <<" ">>, <<"a">>}

\* event.target.files?.[0]
NoFile == "undefined"
Files == {NoFile, "notes.txt"}

\* the tree generateMindMapStructure resolves with
GeneratedTree ==
    LabelledTree(2, [j \in 2..2 |-> 1],
                 <<[topic |-> <<"A", "b">>, content |-> <<>>],
                   [topic |-> <<"b">>, content |-> <<"a", "B", " ", "c">>]>>)

CanAttempt == NumAttempts < MaxAttempts

-----------------------------------------------------------------------------
(* Specification SpecAct: the user types, generates, exports and imports;  *)
(* the awaited calls settle in any order. While the file chooser is open   *)
(* the page takes no input.                                                *)

InitAct ==
    /\ documentText = <<>> /\ isLoading = FALSE /\ error = NoError
    /\ dialogOpen = FALSE /\ inflight = {} /\ events = <<>> /\ dataOwner = 0
    /\ mindMapData = NoTree /\ searchQuery = <<>> /\ searchResults = <<>>
    /\ mindMapText = <<>> /\ apc = "idle"
    /\ items = <<>> /\ tree = NoTree /\ bpc = "idle"
    /\ GenIdle /\ LayoutIdle /\ ViewIdle

\* lines 213 and 219: the textarea and the sample text link
EditText(t) ==
    /\ ~dialogOpen
    /\ documentText' = t
    /\ UNCHANGED <<isLoading, error, dialogOpen, inflight, events, dataOwner,
                   appVars, buildVars, genVars, layoutVars, viewVars>>

\* lines 88-96: handleGenerateMindMap up to its await
ClickGenerate ==
    /\ ~dialogOpen /\ ~GenerateDisabled /\ CanAttempt
    /\ LET id == NumAttempts + 1
       IN IF trim(documentText) = EmptyString
          THEN /\ error' = Msg_EnterText
               /\ events' = Append(events, Event("rejected", id, "generate", Msg_EnterText))
               /\ UNCHANGED <<isLoading, inflight, mindMapData, searchQuery>>
          ELSE /\ isLoading' = TRUE
               /\ error' = ErrorAtStart(error)
               /\ mindMapData' = NoTree
               /\ searchQuery' = <<>>
               /\ inflight' = inflight \cup {[id |-> id, kind |-> "generate"]}
               /\ events' = Append(events, Event("start", id, "generate", NoError))
    /\ UNCHANGED <<documentText, dialogOpen, dataOwner, searchResults,
                   mindMapText, apc, buildVars, genVars, layoutVars, viewVars>>

\* lines 98-104: the awaited generateMindMapStructure settles
GenerateSettles(f, ok) ==
    /\ f \in inflight /\ f.kind = "generate"
    /\ IF ok
       THEN /\ mindMapData' = GeneratedTree
            /\ dataOwner' = f.id
            /\ events' = Append(events, Event("ok", f.id, f.kind, NoError))
            /\ UNCHANGED error
       ELSE /\ error' = Msg_GenerationFailed
            /\ events' = Append(events, Event("failed", f.id, f.kind, Msg_GenerationFailed))
            /\ UNCHANGED <<mindMapData, dataOwner>>
    /\ isLoading' = FALSE
    /\ inflight' = inflight \ {f}
    /\ UNCHANGED <<documentText, dialogOpen, searchQuery, searchResults,
                   mindMapText, apc, buildVars, genVars, layoutVars, viewVars>>

\* lines 108-146: handleExportPdf; jsPDF may throw after line 115
ClickExport(ok) ==
    /\ ~dialogOpen /\ ~ExportDisabled /\ CanAttempt
    /\ LET id == NumAttempts + 1
       IN IF mindMapData = NoTree
          THEN /\ error' = Msg_GenerateFirst
               /\ events' = Append(events, Event("rejected", id, "export", Msg_GenerateFirst))
               /\ UNCHANGED mindMapText
          ELSE /\ mindMapText' = formatMindMapForPdf(mindMapData, mindMapData.rootRef, 0)
               /\ IF ok
                  THEN /\ error' = ErrorAtStart(error)
                       /\ events' = events \o <<Event("start", id, "export", NoError),
                                                Event("ok", id, "export", NoError)>>
                  ELSE /\ error' = Msg_ExportFailed
                       /\ events' = events \o <<Event("start", id, "export", NoError),
                                                Event("failed", id, "export", Msg_ExportFailed)>>
    /\ UNCHANGED <<documentText, isLoading, dialogOpen, inflight, dataOwner,
                   mindMapData, searchQuery, searchResults, apc,
                   buildVars, genVars, layoutVars, viewVars>>

\* lines 149-151: handleFileImportClick opens the file chooser
ClickImport ==
    /\ ~dialogOpen /\ ~ImportDisabled
    /\ dialogOpen' = TRUE
    /\ UNCHANGED <<documentText, isLoading, error, inflight, events, dataOwner,
                   appVars, buildVars, genVars, layoutVars, viewVars>>

\* lines 154-163: handleFileChange up to its await; the chooser closes
FileChange(file) ==
    /\ dialogOpen
    /\ dialogOpen' = FALSE
    /\ IF file = NoFile
       THEN UNCHANGED <<documentText, isLoading, error, inflight, events>>
       ELSE /\ CanAttempt
            /\ LET id == NumAttempts + 1
               IN /\ isLoading' = TRUE
                  /\ error' = ErrorAtStart(error)
                  /\ documentText' = <<>>
                  /\ inflight' = inflight \cup {[id |-> id, kind |-> "import"]}
                  /\ events' = Append(events, Event("start", id, "import", NoError))
    /\ UNCHANGED <<dataOwner, appVars, buildVars, genVars, layoutVars, viewVars>>

\* lines 165-171: the awaited extractTextFromFile settles
ImportSettles(f, ok, text) ==
    /\ f \in inflight /\ f.kind = "import"
    /\ IF ok
       THEN /\ documentText' = text
            /\ events' = Append(events, Event("ok", f.id, f.kind, NoError))
            /\ UNCHANGED error
       ELSE /\ error' = Msg_ImportFailed
            /\ events' = Append(events, Event("failed", f.id, f.kind, Msg_ImportFailed))
            /\ UNCHANGED documentText
    /\ isLoading' = FALSE
    /\ inflight' = inflight \ {f}
    /\ UNCHANGED <<dialogOpen, dataOwner, appVars, buildVars, genVars,
                   layoutVars, viewVars>>

NextAct ==
    \/ \E t \in DocTexts : EditText(t)
    \/ ClickGenerate
    \/ \E f \in inflight, ok \in BOOLEAN : GenerateSettles(f, ok)
    \/ \E ok \in BOOLEAN : ClickExport(ok)
    \/ ClickImport
    \/ \E file \in Files : FileChange(file)
    \/ \E f \in inflight, ok \in BOOLEAN, t \in DocTexts : ImportSettles(f, ok, t)

SpecAct == InitAct /\ [][NextAct]_vars

-----------------------------------------------------------------------------
(* Claims about the actions of App, checked under SpecAct *)

\* the number of the attempt started last, 0 before the first
LastAttempt == NumAttempts

Succeeded(id) == \E k \in 1..Len(events) : events[k].id = id /\ events[k].ev = "ok"

\* attempt id failed with message msg
FailedWith(id, msg) ==
    \E k \in 1..Len(events) :
        /\ events[k].id = id /\ events[k].ev \in {"failed", "rejected"}
        /\ events[k].msg = msg

\* C21 as stated: the error held, if any, is the error of the most recent
\* attempt, and when the most recent attempt succeeded no error is held.
C21_ErrorOfLatestAttempt ==
    /\ error # NoError => LastAttempt > 0 /\ FailedWith(LastAttempt, error)
    /\ LastAttempt > 0 /\ Succeeded(LastAttempt) => error = NoError

\* the events that write the error state: starts and failures
WritesError(e) == e.ev # "ok"

\* attempt id started and nothing has failed since
NoFailureSince(id) ==
    \E k \in 1..Len(events) :
        /\ events[k].id = id /\ events[k].ev = "start"
        /\ \A j \in (k + 1)..Len(events) : events[j].ev # "failed"

\* C21 as amended: one error state, written by every start (cleared) and
\* every failure (its message) and left alone by a success; so the error
\* held is that of the attempt that failed last, unless an attempt has
\* started since. The most recent attempt, when it succeeded and nothing
\* failed after it started, leaves no error. Every attempt clears or
\* replaces the error as it starts.
C21_ErrorOfLatestFailure ==
    /\ [](LET writes == SelectSeq(events, WritesError)
          IN error = IF writes = <<>> THEN NoError ELSE writes[Len(writes)].msg)
    /\ [](LastAttempt > 0 /\ Succeeded(LastAttempt) /\ NoFailureSince(LastAttempt)
             => error = NoError)
    /\ [][NumAttempts' > NumAttempts =>
            \/ error' = NoError
            \/ \E k \in 1..Len(events') :
                  /\ events'[k].id = NumAttempts'
                  /\ events'[k].ev \in {"failed", "rejected"}
                  /\ events'[k].msg = error']_vars

\* C21's case: an export succeeded while an import was in flight, and the
\* import then failed
C21_ImportFailedAfterExport ==
    /\ Len(events) >= 4
    /\ LET n == Len(events)
       IN /\ events[n].ev = "failed" /\ events[n].kind = "import"
          /\ events[n - 1].ev = "ok" /\ events[n - 1].kind = "export"
          /\ events[n - 1].id > events[n].id
    /\ error = Msg_ImportFailed

\* the number of the generation started last, 0 when there is none
LatestGeneration ==
    LET ids == {events[k].id : k \in {j \in 1..Len(events) :
                   events[j].kind = "generate" /\ events[j].ev = "start"}}
    IN IF ids = {} THEN 0 ELSE CHOOSE i \in ids : \A j \in ids : j <= i

\* C27: at most one generation or file import is in flight; isLoading is
\* true exactly while one is; none starts while isLoading is true;
\* isLoading falls only as the one in flight settles; and the mind map
\* shown is never the result of a generation older than the newest.
C27_OneAsyncActionInFlight ==
    /\ [](Cardinality(inflight) <= 1)
    /\ [](isLoading <=> inflight # {})
    /\ [][isLoading => inflight' \subseteq inflight]_vars
    /\ [][isLoading /\ ~isLoading' => inflight # {} /\ inflight' = {}]_vars
    /\ [](mindMapData # NoTree => dataOwner = LatestGeneration)

\* C27's case: a second generation is awaited after an import has settled,
\* the first generation's mind map having been cleared
C27_SecondGenerationInFlight ==
    /\ isLoading
    /\ \E f \in inflight : f.kind = "generate" /\ f.id = 3
    /\ \E k \in 1..Len(events) : events[k].kind = "import" /\ events[k].ev = "ok"
    /\ dataOwner = 1 /\ mindMapData = NoTree

\* C24: after any sequence of gestures from a fitted ViewBox the width and
\* the height of the ViewBox are strictly positive, also when the two
\* pointers that start a pinch are at the same pixel position.
C24_ViewBoxStaysPositive ==
    /\ RLess(Int2Rat(0), viewBox.width)
    /\ RLess(Int2Rat(0), viewBox.height)

\* The statement of C24 for the mouse and the wheel alone, under SpecView.
C24_MouseAndWheelKeepPositive ==
    ~fitPending =>
        /\ RLess(Int2Rat(0), viewBox.width)
        /\ RLess(Int2Rat(0), viewBox.height)

\* The statement of C24 for pinches whose pointers start apart: a pinch
\* update from a snapshot of positive distance gives a positive size to a
\* ViewBox of positive size.
C24_PinchFromApartKeepsPositive ==
    [][(/\ pinchState.set /\ pinchState.distance > 0
        /\ RLess(Int2Rat(0), pinchState.viewBox.width)
        /\ RLess(Int2Rat(0), pinchState.viewBox.height))
       => /\ RLess(Int2Rat(0), viewBox'.width) \/ viewBox' = viewBox
          /\ RLess(Int2Rat(0), viewBox'.height) \/ viewBox' = viewBox]_vars

\* the pointers that are down
PointersDown(m) == {m[k].id : k \in 1..Len(m)}

\* C25: every pinch update that changes the ViewBox scales from a snapshot
\* taken from the two pointers that are down at the update, also after a
\* third pointer went down and one of the first two was lifted.
C25_SnapshotOfTheActivePair ==
    [][viewBox' # viewBox =>
          /\ pinchState.set
          /\ pinchState.pair = PointersDown(activePointers')]_vars

\* The statement of C25 for the pinches during which no third pointer is
\* down: while the two pointers of the snapshot are the ones down, a lifted
\* pointer ends the pinch and a new pair takes a new snapshot.
C25_TwoPointerPinchesUseOwnSnapshot ==
    [][(viewBox' # viewBox /\ PointersDown(activePointers) \subseteq pinchState.pair)
          => pinchState.pair = PointersDown(activePointers')]_vars

\* App has rendered a mind map and its search effect has run
SearchShown == apc \in {"searched", "exported"} /\ mindMapData # NoTree

\* the nodes of the result list of App
Listed == {searchResults[k] : k \in 1..Len(searchResults)}

\* C26: for every query and tree the nodes of App's result list are the
\* nodes MindMap highlights as search matches, also for a query with leading
\* or trailing whitespace.
C26_ListedAreHighlighted ==
    SearchShown => Listed = SearchMatches(searchQuery, mindMapData)

\* The statement of C26 for the queries without leading or trailing
\* whitespace.
C26_TrimmedQueriesAgree ==
    (SearchShown /\ trim(searchQuery) = searchQuery) =>
        Listed = SearchMatches(searchQuery, mindMapData)

C26_TrimmedQueryMatched ==
    /\ SearchShown /\ searchQuery = <<"b">>
    /\ Cardinality(Listed) = 3
    /\ Cardinality(DOMAIN mindMapData.heap) = 3

\* a step that handles a mouse move by changing the ViewBox
MoveStep == Len(log') = Len(log) + 1 /\ IsMove(log'[Len(log')])

\* C28: a mouse move changes the ViewBox only while a drag is active, which
\* a mouse down starts and a mouse up or mouse leave ends; in any other
\* state nothing but a wheel step or the fit changes the ViewBox; each drag
\* step is measured from the position of the previous move (of the mouse
\* down for the first), which the step then remembers.
C28_MoveActsOnlyWhileDragging ==
    /\ [][MoveStep => isPanning /\ isPanning']_vars
    /\ [][(viewBox' # viewBox /\ ~isPanning) =>
            Len(log') = Len(log) + 1 /\ log'[Len(log')].ev \in {"wheel", "fit"}]_vars
    /\ [][MoveStep =>
            LET e == log'[Len(log')]
            IN /\ e.dx = startPoint'.x - startPoint.x
               /\ e.dy = startPoint'.y - startPoint.y
               /\ viewBox'.x = RSub(viewBox.x,
                                    PanOffset(e.dx, viewBox.width, rect.width))
               /\ viewBox'.y = RSub(viewBox.y,
                                    PanOffset(e.dy, viewBox.height, rect.height))]_vars
    /\ [][startPoint' # startPoint => MoveStep \/ (isPanning' /\ viewBox' = viewBox)]_vars

\* C28's case: two steps of one drag, the second measured from the first,
\* then the button released
C28_TwoStepsOfOneDrag ==
    /\ ~isPanning
    /\ Len(log) >= 2
    /\ LET n == Len(log)
       IN /\ IsMove(log[n - 1]) /\ IsMove(log[n])
          /\ log[n - 1].dx # 0 /\ log[n].dx = log[n - 1].dx
          /\ log[n - 1].after = log[n].before
          /\ viewBox = log[n].after

=============================================================================
